---- MODULE Spec2Model ----
(***************************************************************************)
(* Server-side validity estimation of grpc-caching-interceptors:           *)
(* ConfigurableValidityEstimator (server/interceptor.go, second revision), *)
(* verifier (server/verifier.go) and the estimation strategies.            *)
(*                                                                         *)
(* Time.  time.Time and time.Duration are counted in ticks of 500 ms       *)
(* (TicksPerSecond ticks per second).  The clock `now` only moves in the   *)
(* Tick action; every other action runs at one instant.                    *)
(***************************************************************************)
EXTENDS Integers, Sequences, FiniteSets, TLC

----------------------------------------------------------------------------
\* Bounds of the model.

\* RPCs (invocations of the server interceptor), and so verifiers constructed
MaxCalls == 2
\* observations a verifier's history may hold
MaxObservations == 2
\* what the environment does in a run: RPCs begun, advances of the clock and
\* changes of the upstream reply
MaxEvents == 3
\* the largest K given to backwardsUpdateDistance
MaxK == 3

----------------------------------------------------------------------------
\* Program constants.

\* const MaximumCacheValidity, in seconds
MaximumCacheValidity == 45
\* ticks per time.Second: the 500 ms worker nap is one tick
TicksPerSecond == 2
\* len(v.responseTimes) as made by newVerifier
ResponseTimesLen == 256

Calls == 1..MaxCalls
\* a verifier is known by the call that constructed it
VerifierIds == Calls
\* the gRPC methods of the proxied service; each is called with one request
Methods == { [service |-> "Public", name |-> "Read"],
             [service |-> "Secret", name |-> "Read"] }
\* hash(method, req): the registry's keys
hash(method) == IF method.service = "Public" THEN "f1" ELSE "f2"
Fingerprints == {hash(m) : m \in Methods}
\* upstream reply messages, compared with proto.Equal
Replies == {"a", "b"}
NoReply == "none"
\* elapsed time of an upstream call, in ticks
ResponseTimes == {1}
\* how far the clock advances at once: 1 s, 45 s, 46 s
ClockSteps == {TicksPerSecond, MaximumCacheValidity * TicksPerSecond,
               (MaximumCacheValidity + 1) * TicksPerSecond}

\* the estimation strategies a process may be configured with; ttl in seconds.
\* The configuration string ("static-N", "dynamic-nyqvistish", ...) is read
\* outside these files; the set follows its description.
Strategies ==
    { [kind |-> "static", ttl |-> 10],
      [kind |-> "static", ttl |-> 60],
      [kind |-> "simplistic", ttl |-> 0],
      [kind |-> "nyqvistish", ttl |-> 0],
      [kind |-> "nil", ttl |-> 0] }

\* PROXY_MAX_AGE is unset or cannot be parsed: the estimator is configured
\* with the strategy that never estimates
Passthrough(strat) == strat.kind = "nil"

Seconds(n) == n * TicksPerSecond

\* int(d.Seconds()): Go's float-to-int conversion truncates toward zero
WholeSeconds(d) == IF d >= 0 THEN d \div TicksPerSecond
                   ELSE -((-d) \div TicksPerSecond)

\* d.Seconds() > 0 on the float64 value
SecondsPositive(d) == d > 0

Last(s) == s[Len(s)]

----------------------------------------------------------------------------
VARIABLES
    now,        \* time.Now(), in ticks
    upstream,   \* the reply the upstream service gives now
    events,     \* RPCs begun, clock advances and upstream changes so far
    strategy,   \* the strategy initializeStrategy() builds
    verifiers,  \* the verifier objects, by identity: VerifierIds -> record
    workers,    \* each verifier's run() goroutine: VerifierIds -> record
    registry,   \* e.verifiers: fingerprint -> [v, expiration]
    done,       \* e.done: the channel of finished fingerprints
    cleanup,    \* the cleanup goroutine of Initialize
    calls,      \* the RPC handlers: Calls -> record
    returned,   \* the last return of the server interceptor
    env,        \* PROXY_CACHE_BLACKLIST, and the methods the clients call
    probe,      \* a strategy function's arguments and what it returned
    client      \* package client: the caching interceptors of the proxy

vars == <<now, upstream, events, strategy, verifiers, workers, registry, done, cleanup,
          calls, returned, env, probe, client>>

----------------------------------------------------------------------------
\* Strategies.  Each returns [err, value] as the Go (time.Duration, error).

\* index of the oldest observation of the suffix equal to the newest reply
OldestUnchanged(verifications) ==
    LET n == Len(verifications)
    IN  CHOOSE i \in 1..n :
          /\ \A j \in i..n : verifications[j].reply = verifications[n].reply
          /\ i = 1 \/ verifications[i-1].reply # verifications[n].reply

\* a static estimation that grows with the time
StaticDetermineEstimationElapsed(strat) ==
    [err |-> FALSE, value |-> Seconds(strat.ttl) + now]

StaticDetermineEstimation(strat) ==
    [err |-> FALSE, value |-> Seconds(strat.ttl)]

StaticDetermineInterval(strat) ==
    [err |-> TRUE, value |-> -1]

SimplisticDetermineEstimation(verifications) ==
    LET last == Last(verifications)
        oldest == verifications[OldestUnchanged(verifications)]
        unchanged == WholeSeconds(last.timestamp - oldest.timestamp)
    IN  [err |-> FALSE, value |-> Seconds(unchanged \div 2)]

SimplisticDetermineInterval ==
    [err |-> FALSE, value |-> Seconds(5)]

\* an estimation of the whole unchanged span
NyqvistishWholeSpan(verifications) ==
    LET last == Last(verifications)
        oldest == verifications[OldestUnchanged(verifications)]
    IN  [err |-> FALSE, value |-> last.timestamp - oldest.timestamp]

NyqvistishDetermineEstimation(verifications) ==
    LET last == Last(verifications)
        oldest == verifications[OldestUnchanged(verifications)]
        unchanged == last.timestamp - oldest.timestamp
    IN  [err |-> FALSE, value |-> unchanged \div 2]

NyqvistishDetermineInterval(estimations) ==
    IF Len(estimations) > 0
    THEN [err |-> FALSE, value |-> Last(estimations)]
    ELSE [err |-> FALSE, value |-> Seconds(1)]

NilDetermineEstimation == [err |-> TRUE, value |-> 0]

NilDetermineInterval == [err |-> TRUE, value |-> 0]

\* time.Time{}, which make([]time.Time, K) fills the slice with: before
\* every timestamp
ZeroTime == -1

\* the loop of backwardsUpdateDistance at index i, with the value v last
\* seen and the timestamps recorded so far
RECURSIVE BackwardsLoop(_, _, _, _, _)
BackwardsLoop(verifications, K, i, v, recorded) ==
    IF i >= 1 /\ Len(recorded) < K
    THEN LET current == verifications[i]
         IN  IF v.reply # current.reply
             THEN BackwardsLoop(verifications, K, i - 1, current,
                                Append(recorded, current.timestamp))
             ELSE BackwardsLoop(verifications, K, i - 1, v, recorded)
    ELSE recorded

\* the same loop recording the timestamp of the value last seen, not of the
\* observation that differs from it
RECURSIVE BackwardsLoopNewer(_, _, _, _, _)
BackwardsLoopNewer(verifications, K, i, v, recorded) ==
    IF i >= 1 /\ Len(recorded) < K
    THEN LET current == verifications[i]
         IN  IF v.reply # current.reply
             THEN BackwardsLoopNewer(verifications, K, i - 1, current,
                                     Append(recorded, v.timestamp))
             ELSE BackwardsLoopNewer(verifications, K, i - 1, v, recorded)
    ELSE recorded

\* the K slots and the count, given the timestamps recorded
Distance(K, recorded) ==
    [timestamps |-> [k \in 1..K |-> IF k <= Len(recorded) THEN recorded[k]
                                     ELSE ZeroTime],
     updates |-> Len(recorded)]

BackwardsUpdateDistanceNewer(verifications, K) ==
    Distance(K, BackwardsLoopNewer(verifications, K, Len(verifications),
                                   Last(verifications), << >>))

\* backwardsUpdateDistance(verifications, K): [timestamps, updates]
BackwardsUpdateDistance(verifications, K) ==
    Distance(K, BackwardsLoop(verifications, K, Len(verifications),
                              Last(verifications), << >>))

\* defaultInterval, whose declaration is not in these files
DefaultInterval == Seconds(5)

Max(a, b) == IF a >= b THEN a ELSE b

\* lastEstimation(estimations), then
\* math.Max(estimate.validity.Seconds()/2.0, defaultInterval.Seconds()) and
\* time.Duration(bounded) * time.Second, which drops the fraction of a second
BoundedInterval(estimations) ==
    IF Len(estimations) = 0 THEN [err |-> FALSE, value |-> DefaultInterval]
    ELSE [err |-> FALSE,
          value |-> Seconds(Max(Last(estimations) \div (2 * TicksPerSecond),
                                WholeSeconds(DefaultInterval)))]

\* adaptiveStrategy.estimateTTL: int64(float64(elapsed ns) * alpha)
EstimateTTL(strat, lastModification) ==
    ((now - lastModification) * strat.alpha.num) \div strat.alpha.den

AdaptiveDetermineEstimation(strat, verifications) ==
    LET d == BackwardsUpdateDistance(verifications, 1)
        lastModification == IF d.updates = 0 THEN verifications[1].timestamp
                            ELSE d.timestamps[1]
    IN  [err |-> FALSE, value |-> EstimateTTL(strat, lastModification)]

AdaptiveDetermineInterval(estimations) == BoundedInterval(estimations)

\* -math.Log(1.0 - rho), in millionths: for the rho of UpdateRiskStrategies
NegLogOneMinus(rho) ==
    CASE rho = [num |-> 0, den |-> 1] -> 0
      [] rho = [num |-> 9, den |-> 10] -> 2302585

\* an update frequency that counts K updates as soon as one is found
AverageUpdateFrequencyOfK(strat, verifications) ==
    LET d == BackwardsUpdateDistance(verifications, strat.K)
    IN  IF d.updates = 0 THEN [num |-> 1, den |-> 1]
        ELSE [num |-> strat.K * TicksPerSecond,
              den |-> now - d.timestamps[d.updates]]

\* updateRiskBasedStrategy.averageUpdateFrequency: the float64 as the
\* fraction num/den per second (den = 0: +Inf)
AverageUpdateFrequency(strat, verifications) ==
    LET d == BackwardsUpdateDistance(verifications, strat.K)
    IN  IF d.updates = 0 THEN [num |-> 1, den |-> 1]
        ELSE [num |-> d.updates * TicksPerSecond,
              den |-> now - d.timestamps[d.updates]]

\* t := -1.0 / mu * math.Log(1.0 - rho); time.Duration(t) * time.Second
RiskEstimation(mu, rho) ==
    Seconds((mu.den * NegLogOneMinus(rho)) \div (mu.num * 1000000))

\* an estimation that leaves the update risk out: 1/mu
UpdateRiskIgnoresRho(strat, verifications) ==
    LET mu == AverageUpdateFrequency(strat, verifications)
    IN  [err |-> FALSE, value |-> Seconds(mu.den \div mu.num)]

UpdateRiskDetermineEstimation(strat, verifications) ==
    [err |-> FALSE,
     value |-> RiskEstimation(AverageUpdateFrequency(strat, verifications),
                              strat.rho)]

UpdateRiskDetermineInterval(estimations) == BoundedInterval(estimations)

DetermineEstimation(strat, intervals, verifications, estimations) ==
    CASE strat.kind = "static" -> StaticDetermineEstimation(strat)
      [] strat.kind = "simplistic" -> SimplisticDetermineEstimation(verifications)
      [] strat.kind = "nyqvistish" -> NyqvistishDetermineEstimation(verifications)
      [] strat.kind = "adaptive" -> AdaptiveDetermineEstimation(strat, verifications)
      [] strat.kind = "updaterisk" ->
             UpdateRiskDetermineEstimation(strat, verifications)
      [] OTHER -> NilDetermineEstimation

DetermineInterval(strat, intervals, verifications, estimations) ==
    CASE strat.kind = "static" -> StaticDetermineInterval(strat)
      [] strat.kind = "simplistic" -> SimplisticDetermineInterval
      [] strat.kind = "nyqvistish" -> NyqvistishDetermineInterval(estimations)
      [] strat.kind = "adaptive" -> AdaptiveDetermineInterval(estimations)
      [] strat.kind = "updaterisk" -> UpdateRiskDetermineInterval(estimations)
      [] OTHER -> NilDetermineInterval

----------------------------------------------------------------------------
\* The strategies of the revision whose strategy keeps its own state and is
\* told of every observation by update(timestamp, reply).

\* staticStrategy.update: nothing
StatefulStaticUpdate(strat, timestamp, reply) == strat

\* staticStrategy.determineInterval()
StatefulStaticDetermineInterval(strat) == -1

\* staticStrategy.determineEstimation()
StatefulStaticDetermineEstimation(strat) == Seconds(strat.ttl)

\* hashcode.String(reply.String()): never negative
ReplyHash(reply) == IF reply = "a" THEN 1 ELSE 2

\* updateRiskBasedStrategy.initialize() at time t
StatefulInitialize(rho, t) ==
    [ rho |-> rho, olderModification |-> t, newerModification |-> t,
      responseHash |-> -1, lastEstimation |-> 0, observedUpdates |-> 0 ]

\* updateRiskBasedStrategy.update(timestamp, reply)
StatefulUpdate(s, timestamp, reply) ==
    IF ReplyHash(reply) # s.responseHash
    THEN [s EXCEPT !.olderModification = s.newerModification,
                   !.newerModification = timestamp,
                   !.responseHash = ReplyHash(reply),
                   !.observedUpdates = IF @ < 2 THEN @ + 1 ELSE @]
    ELSE s

\* updateRiskBasedStrategy.averageUpdateFrequency(), as num/den per second
StatefulAverageUpdateFrequency(s) ==
    IF s.observedUpdates = 0 THEN [num |-> 1, den |-> 1]
    ELSE LET lastModified == IF s.observedUpdates = 1
                             THEN s.newerModification
                             ELSE s.olderModification
         IN  [num |-> s.observedUpdates * TicksPerSecond,
              den |-> now - lastModified]

\* updateRiskBasedStrategy.determineEstimation()
StatefulDetermineEstimation(s) ==
    RiskEstimation(StatefulAverageUpdateFrequency(s), s.rho)

\* updateRiskBasedStrategy.determineInterval()
StatefulDetermineInterval(s) ==
    Seconds(Max(s.lastEstimation \div (2 * TicksPerSecond),
                WholeSeconds(DefaultInterval)))

----------------------------------------------------------------------------
\* TBG1, whose strategy object keeps the previous message, the estimate (a
\* float64 of seconds, here a fraction num/den of ticks) and the stage.

\* the zero verification: no reply, time.Time{}
NoMessage == [reply |-> NoReply, timestamp |-> ZeroTime]

\* dynamicTBG1Strategy.initialize(), on the zero struct
TBG1Initialize ==
    [ prevMessage |-> NoMessage, estimate |-> [num |-> 0, den |-> 1],
      stage |-> 0 ]

\* math.Round(x) of a fraction x >= 0: halves away from zero
RoundFraction(num, den) == (2 * num + den) \div (2 * den)

\* the strategy object after determineEstimation with newMessage the newest
\* verification
TBG1Observe(s, newMessage) ==
    IF newMessage.reply # s.prevMessage.reply
    THEN LET elapsed == newMessage.timestamp - s.prevMessage.timestamp
         IN  CASE s.stage = 0 ->
                    [s EXCEPT !.stage = 1, !.prevMessage = newMessage]
               [] s.stage = 1 ->
                    [s EXCEPT !.estimate = [num |-> elapsed, den |-> 1],
                              !.stage = 2, !.prevMessage = newMessage]
               [] OTHER ->
                    [s EXCEPT !.estimate =
                                 [num |-> 9 * @.num + elapsed * @.den,
                                  den |-> 10 * @.den],
                              !.prevMessage = newMessage]
    ELSE s

\* what determineEstimation returns: time.Duration(round(estimate, 1) * 1e9)
TBG1DetermineEstimation(s) ==
    Seconds(RoundFraction(s.estimate.num, s.estimate.den * TicksPerSecond))

\* dynamicTBG1Strategy.determineInterval: [err, value], the value in quarters
\* of a second: max(0.25, round(estimate/2, 0.5)) s
TBG1DetermineInterval(s) ==
    IF s.stage >= 1
    THEN [err |-> FALSE,
          value |-> Max(1, 2 * RoundFraction(s.estimate.num,
                                             s.estimate.den * TicksPerSecond))]
    ELSE [err |-> TRUE, value |-> -1]

----------------------------------------------------------------------------
\* The verifier's methods, as functions of a verifier record v.

\* a verifier identity newVerifier has not used yet
NoVerifier ==
    [ created |-> FALSE, fp |-> "f1", expiration |-> 0,
      verifications |-> <<>>, estimations |-> <<>>, intervals |-> <<>>,
      responseTimes |-> <<>>, responseTimeCounter |-> 0,
      responseTimesFilled |-> FALSE ]

\* a finished() that never reports the expiration
NeverFinished(v) == FALSE

\* verifier.finished()
Finished(v) == now > v.expiration

\* responseTimes holds the written slots only: slot i is at index i+1, and
\* a slot never written still has the zero make() gave it
RecordResponseTime(v, responseTime) ==
    LET bumped == v.responseTimeCounter + 1
        wrapped == bumped >= ResponseTimesLen
        counter == IF wrapped THEN 0 ELSE bumped
        padded == [i \in 1..(IF counter + 1 > Len(v.responseTimes)
                             THEN counter + 1 ELSE Len(v.responseTimes)) |->
                     IF i <= Len(v.responseTimes) THEN v.responseTimes[i] ELSE 0]
    IN  [v EXCEPT !.responseTimeCounter = counter,
                  !.responseTimesFilled = @ \/ wrapped,
                  !.responseTimes = [padded EXCEPT ![counter + 1] = responseTime]]

\* len(recordedResponseTimes) in percentileResponseTime
RecordedCount(v) ==
    IF v.responseTimesFilled THEN ResponseTimesLen ELSE v.responseTimeCounter

\* recordedResponseTimes in percentileResponseTime: the whole buffer once it
\* is filled, else responseTimes[0:responseTimeCounter]
RecordedResponseTimes(v) ==
    IF v.responseTimesFilled
    THEN [i \in 1..ResponseTimesLen |->
            IF i <= Len(v.responseTimes) THEN v.responseTimes[i] ELSE 0]
    ELSE SubSeq(v.responseTimes, 1, v.responseTimeCounter)

\* whether percentileResponseTime returns an error: stats.Percentile rejects
\* an empty input, and libraryOk says whether it accepts this one
PercentileFails(v, libraryOk) == RecordedCount(v) = 0 \/ ~libraryOk

\* an updateEstimations that appends the value even when the strategy fails
UpdateEstimationsDespiteError(v, libraryOk) ==
    IF PercentileFails(v, libraryOk) THEN [err |-> TRUE, v |-> v]
    ELSE LET e == DetermineEstimation(strategy, v.intervals, v.verifications,
                                      v.estimations)
         IN  [err |-> e.err, v |-> [v EXCEPT !.estimations = Append(@, e.value)]]

\* v.estimations = append(v.estimations, estimation) unless err != nil
StoreEstimation(v, e) ==
    IF e.err THEN [err |-> TRUE, v |-> v]
    ELSE [err |-> FALSE, v |-> [v EXCEPT !.estimations = Append(@, e.value)]]

\* verifier.updateEstimations(reply): [err, v]
UpdateEstimations(v, libraryOk) ==
    IF PercentileFails(v, libraryOk) THEN [err |-> TRUE, v |-> v]
    ELSE StoreEstimation(v, DetermineEstimation(strategy, v.intervals,
                                                v.verifications, v.estimations))

\* v.intervals = append(v.intervals, interval) unless err != nil
StoreInterval(v, d) ==
    IF d.err THEN [err |-> TRUE, v |-> v]
    ELSE [err |-> FALSE, v |-> [v EXCEPT !.intervals = Append(@, d.value)]]

UpdateIntervals(v) ==
    StoreInterval(v, DetermineInterval(strategy, v.intervals, v.verifications,
                                       v.estimations))

\* verifier.update(reply, responseTime): [err, v]
Update(v, reply, responseTime, libraryOk) ==
    IF Finished(v) THEN [err |-> TRUE, v |-> v]
    ELSE LET recorded == RecordResponseTime(v, responseTime)
             observed == [recorded EXCEPT !.verifications =
                            Append(@, [reply |-> reply, timestamp |-> now])]
             estimated == UpdateEstimations(observed, libraryOk).v
             scheduled == UpdateIntervals(estimated).v
         IN  [err |-> FALSE, v |-> scheduled]

\* an estimate() that returns the oldest estimation
EstimateOldest(v) == IF Len(v.estimations) = 0 THEN 0 ELSE Head(v.estimations)

\* verifier.logEstimation returns an error: there is no estimation to log
NothingToLog(v) == Len(v.estimations) = 0

\* verifier.estimate()
Estimate(v) == IF Len(v.estimations) = 0 THEN 0 ELSE Last(v.estimations)

----------------------------------------------------------------------------
\* The registry: go-cache, whose entries carry an expiration and are not
\* found once it has passed.

\* cache.New(MaximumCacheValidity s, ...): the default expiration, which
\* Add(k, x, time.Duration(0)) gives the entry
DefaultExpiration == Seconds(MaximumCacheValidity)

\* e.verifiers.Get / GetWithExpiration: found
Found(f) == f \in DOMAIN registry /\ now <= registry[f].expiration

\* e.verifiers.Add(k, x, 0): an error when k is found, else the entry is set
CacheAdd(f, id) ==
    IF Found(f) THEN [err |-> TRUE, registry |-> registry]
    ELSE [err |-> FALSE,
          registry |-> [g \in DOMAIN registry \cup {f} |->
                          IF g = f THEN [v |-> id,
                                         expiration |-> now + DefaultExpiration]
                          ELSE registry[g]]]

\* a Delete that leaves the entry in place
CacheKeep(f) == registry

\* e.verifiers.Delete(k)
CacheDelete(f) == [g \in DOMAIN registry \ {f} |-> registry[g]]

----------------------------------------------------------------------------
\* The unary interceptors.  A call record is one RPC handler: the server
\* interceptor, whose handler reaches upstream through the client interceptor.
\*   fp, reply  the call's fingerprint and the reply the invoker got
\*   v          the verifier this call constructed (0: none)
\*   hresp,herr what the handler returned to the server interceptor
IdleCall ==
    [ pc |-> "idle", fp |-> "f1", reply |-> NoReply, v |-> 0,
      hresp |-> NoReply, herr |-> "nil" ]

\* `returned` is what the server interceptor gave its RPC caller when the
\* last step was its return (NothingReturned after any other step), with
\* the call it was:
\*   ret        the (resp, err) returned
\*   header     <<N>> when cache-control: must-revalidate, max-age=N was set
\*   facade     <<[ttl, err]>> when estimateMaxAge was called
NothingReturned ==
    [ call |-> IdleCall, ret |-> [resp |-> NoReply, err |-> "nil"],
      header |-> << >>, facade |-> << >> ]

\* a worker goroutine that newVerifier has not started
NoWorker == [pc |-> "none", wake |-> 0, err |-> "nil"]

\* PROXY_CACHE_BLACKLIST is not set
NoBlacklist == [found |-> FALSE, valid |-> TRUE, service |-> ""]
\* PROXY_CACHE_BLACKLIST=^/Secret/
SecretBlacklist == [found |-> TRUE, valid |-> TRUE, service |-> "Secret"]
\* PROXY_CACHE_BLACKLIST is set to an expression regexp cannot compile
BadBlacklist == [found |-> TRUE, valid |-> FALSE, service |-> ""]

PublicRead == [service |-> "Public", name |-> "Read"]

\* no strategy function is being applied
NoProbe == [pc |-> "none"]

\* the caching interceptors are not installed
NoClient == [pc |-> "none"]

Init ==
    /\ now = 0
    /\ events = 0
    /\ upstream = "a"
    /\ strategy \in Strategies
    /\ verifiers = [id \in VerifierIds |-> NoVerifier]
    /\ workers = [id \in VerifierIds |-> NoWorker]
    /\ registry = << >>
    /\ done = << >>
    /\ cleanup = [pc |-> "receive", finishedVerifier |-> "f1"]
    /\ calls = [c \in Calls |-> IdleCall]
    /\ returned = NothingReturned
    /\ env = [blacklist |-> NoBlacklist, methods |-> {PublicRead}]
    /\ probe = NoProbe
    /\ client = NoClient

\* the estimator of a proxy whose PROXY_CACHE_BLACKLIST is set, and whose
\* clients call both methods
BlacklistStrategies ==
    { [kind |-> "simplistic", ttl |-> 0], [kind |-> "static", ttl |-> 10] }

BlacklistInit ==
    /\ now = 0
    /\ events = 0
    /\ upstream = "a"
    /\ strategy \in BlacklistStrategies
    /\ verifiers = [id \in VerifierIds |-> NoVerifier]
    /\ workers = [id \in VerifierIds |-> NoWorker]
    /\ registry = << >>
    /\ done = << >>
    /\ cleanup = [pc |-> "receive", finishedVerifier |-> "f1"]
    /\ calls = [c \in Calls |-> IdleCall]
    /\ returned = NothingReturned
    /\ env \in [blacklist : {SecretBlacklist, BadBlacklist}, methods : {Methods}]
    /\ probe = NoProbe
    /\ client = NoClient

\* the upstream service's reply for the request changes
UpstreamChanges ==
    /\ events < MaxEvents
    /\ events' = events + 1
    /\ \E r \in Replies \ {upstream} : upstream' = r
    /\ returned' = NothingReturned
    /\ UNCHANGED <<now, strategy, verifiers, workers, registry, done, cleanup, calls, env, probe, client>>

\* the clock advances
Tick ==
    /\ events < MaxEvents
    /\ events' = events + 1
    /\ \E d \in ClockSteps : now' = now + d
    /\ returned' = NothingReturned
    /\ UNCHANGED <<upstream, strategy, verifiers, workers, registry, done, cleanup, calls, env, probe, client>>

----------------------------------------------------------------------------
\* UnaryServerInterceptor, from the return of its handler on

\* estimateMaxAge after `err := verifier.update(...)`: (-1, err), or
\* verifier.estimate() of the updated verifier
EstimateOf(id, updated) ==
    IF updated.err
    THEN [ttl |-> -1, err |-> TRUE, verifiers |-> verifiers]
    ELSE [ttl |-> Estimate(updated.v), err |-> FALSE,
          verifiers |-> [verifiers EXCEPT ![id] = updated.v]]

\* e.estimateMaxAge(fullMethod, req, resp): [ttl, err, verifiers]
EstimateMaxAge(f, resp, responseTime, libraryOk) ==
    IF Found(f)
    THEN EstimateOf(registry[f].v,
                    Update(verifiers[registry[f].v], resp, responseTime,
                           libraryOk))
    ELSE [ttl |-> 0, err |-> FALSE, verifiers |-> verifiers]

\* an interceptor that takes every return of the handler for a success
HandlerNeverFailed(call) == FALSE

\* `if err != nil` after `resp, err := handler(ctx, req)`
HandlerFailed(call) == call.herr # "nil"

\* the header grpc.SetHeader is given, if any
CacheControl(maxAge, err) ==
    IF ~err /\ SecondsPositive(maxAge) THEN <<WholeSeconds(maxAge)>> ELSE << >>

\* the interceptor after `maxAge, err := e.estimateMaxAge(...)`
WithMaxAge(call, est) ==
    [ret |-> [resp |-> call.hresp, err |-> "nil"],
     header |-> CacheControl(est.ttl, est.err),
     facade |-> <<[ttl |-> est.ttl, err |-> est.err]>>,
     verifiers |-> est.verifiers]

\* what the interceptor does once the handler has returned:
\* [ret, header, facade, verifiers]
ServerInterceptor(call, responseTime, libraryOk) ==
    IF HandlerFailed(call)
    THEN [ret |-> [resp |-> call.hresp, err |-> call.herr], header |-> << >>,
          facade |-> << >>, verifiers |-> verifiers]
    ELSE WithMaxAge(call, EstimateMaxAge(call.fp, call.hresp, responseTime,
                                         libraryOk))

\* the history of every verifier stays within MaxObservations
WithinBounds(vs) ==
    \A id \in VerifierIds : Len(vs[id].verifications) <= MaxObservations

\* the server interceptor of call c, whose handler returned as `call` says,
\* returns to the RPC caller
Returns(c, call) ==
    /\ \E responseTime \in ResponseTimes, libraryOk \in BOOLEAN :
         LET out == ServerInterceptor(call, responseTime, libraryOk)
         IN  /\ WithinBounds(out.verifiers)
             /\ verifiers' = out.verifiers
             /\ returned' = [call |-> call, ret |-> out.ret,
                             header |-> out.header, facade |-> out.facade]
    /\ calls' = [calls EXCEPT ![c] = [IdleCall EXCEPT !.pc = "returned"]]

\* the handler's return with the client interceptor's error
Failed(call, err) ==
    [IdleCall EXCEPT !.pc = "handled", !.fp = call.fp, !.herr = err]

\* the handler returned without an error
ServerReturn(c) ==
    /\ calls[c].pc = "handled"
    /\ Returns(c, calls[c])
    /\ UNCHANGED <<now, upstream, events, strategy, workers, registry, done, cleanup, env, probe, client>>

----------------------------------------------------------------------------
\* UnaryClientInterceptor, which the handler calls

\* regexp.Match(expression, method): [err, matched].  An expression is
\* ^/<service>/ when valid, and does not compile otherwise.
RegexpMatch(expression, method) ==
    [err |-> ~expression.valid,
     matched |-> expression.valid /\ method.service = expression.service]

\* a verificationNeeded that does not look at PROXY_CACHE_BLACKLIST
NothingBlacklisted(method) == FALSE

\* `if blacklistExpression, found := os.LookupEnv("PROXY_CACHE_BLACKLIST"); found`
\* and `err == nil && blacklisted`
Blacklisted(method) ==
    /\ env.blacklist.found
    /\ LET m == RegexpMatch(env.blacklist, method)
       IN  ~m.err /\ m.matched

\* e.verificationNeeded(method, req): needed
VerificationNeeded(method) == ~Blacklisted(method) /\ ~Found(hash(method))

\* newVerifier(..., now.Add(expiration s), strategy, ...): the verifier seeded
\* with resp by update(resp, time.Duration(-1))
NewVerifier(f, resp, libraryOk) ==
    Update([NoVerifier EXCEPT !.created = TRUE, !.fp = f,
              !.expiration = now + Seconds(MaximumCacheValidity)],
           resp, -1, libraryOk)

\* the invoker fails, and so do the interceptors
ClientInvokeFails(c) ==
    /\ calls[c].pc = "idle"
    /\ events < MaxEvents
    /\ events' = events + 1
    /\ \E m \in env.methods, f \in Fingerprints :
         /\ f = hash(m)
         /\ Returns(c, Failed([IdleCall EXCEPT !.fp = f], "upstream"))
    /\ UNCHANGED <<now, upstream, strategy, workers, registry, done, cleanup, env, probe, client>>

\* the invoker fills in reply and verificationNeeded says no
ClientInvoke(c) ==
    /\ calls[c].pc = "idle"
    /\ events < MaxEvents
    /\ events' = events + 1
    /\ \E m \in env.methods, f \in Fingerprints :
         /\ f = hash(m)
         /\ ~VerificationNeeded(m)
         /\ calls' = [calls EXCEPT ![c] =
               [IdleCall EXCEPT !.pc = "handled", !.fp = f, !.hresp = upstream]]
    /\ returned' = NothingReturned
    /\ UNCHANGED <<now, upstream, strategy, verifiers, workers, registry, done, cleanup, env, probe, client>>

\* the invoker fills in reply, verificationNeeded says yes, and newVerifier:
\* grpc.Dial fails, or the verifier is made, seeded, and `go v.run()`
ClientNewVerifier(c) ==
    /\ calls[c].pc = "idle"
    /\ events < MaxEvents
    /\ events' = events + 1
    /\ \E m \in env.methods, f \in Fingerprints :
         /\ f = hash(m)
         /\ VerificationNeeded(m)
         /\ \/ /\ Returns(c, Failed([IdleCall EXCEPT !.fp = f], "dial"))
               /\ UNCHANGED workers
            \/ /\ \E libraryOk \in BOOLEAN :
                    LET made == NewVerifier(f, upstream, libraryOk)
                    IN  IF made.err
                        THEN /\ Returns(c, Failed([IdleCall EXCEPT !.fp = f],
                                                  "update"))
                             /\ UNCHANGED workers
                        ELSE /\ verifiers' = [verifiers EXCEPT ![c] = made.v]
                             /\ workers' = [workers EXCEPT ![c] =
                                              [pc |-> "loop", wake |-> 0, err |-> "nil"]]
                             /\ calls' = [calls EXCEPT ![c] =
                                   [IdleCall EXCEPT !.pc = "add", !.fp = f,
                                       !.reply = upstream, !.v = c]]
                             /\ returned' = NothingReturned
    /\ UNCHANGED <<now, upstream, strategy, registry, done, cleanup, env, probe, client>>

\* `err = e.verifiers.Add(hash, verifier, time.Duration(0))`: the error is
\* returned, or nil is
ClientAdd(c) ==
    /\ calls[c].pc = "add"
    /\ LET added == CacheAdd(calls[c].fp, calls[c].v)
       IN  /\ registry' = added.registry
           /\ IF added.err
              THEN Returns(c, Failed(calls[c], "add"))
              ELSE /\ calls' = [calls EXCEPT ![c] =
                         [IdleCall EXCEPT !.pc = "handled", !.fp = calls[c].fp,
                             !.hresp = calls[c].reply]]
                   /\ returned' = NothingReturned
                   /\ UNCHANGED verifiers
    /\ UNCHANGED <<now, upstream, events, strategy, workers, done, cleanup, env, probe, client>>

----------------------------------------------------------------------------
\* verifier.run(): the worker goroutine

\* the loop head: nap 500 ms while there is no interval, else sleep the last
WorkerLoop(id) ==
    /\ workers[id].pc = "loop"
    /\ workers' = [workers EXCEPT ![id] =
          IF Len(verifiers[id].intervals) = 0
          THEN [@ EXCEPT !.pc = "nap", !.wake = now + Seconds(1) \div 2]
          ELSE [@ EXCEPT !.pc = "sleep",
                         !.wake = now + Last(verifiers[id].intervals)]]
    /\ returned' = NothingReturned
    /\ UNCHANGED <<now, upstream, events, strategy, verifiers, registry, done, cleanup, calls, env, probe, client>>

\* time.Sleep(500 ms) returns; `continue`
WorkerNapped(id) ==
    /\ workers[id].pc = "nap"
    /\ now >= workers[id].wake
    /\ workers' = [workers EXCEPT ![id] = [@ EXCEPT !.pc = "loop", !.wake = 0]]
    /\ returned' = NothingReturned
    /\ UNCHANGED <<now, upstream, events, strategy, verifiers, registry, done, cleanup, calls, env, probe, client>>

\* time.Sleep(delay) returns: `if v.finished() { break }` and
\* `v.done <- hash(v.method, v.req)`; return; else v.fetch() invokes upstream
WorkerWoke(id) ==
    /\ workers[id].pc = "sleep"
    /\ now >= workers[id].wake
    /\ IF Finished(verifiers[id])
       THEN /\ done' = Append(done, verifiers[id].fp)
            /\ workers' = [workers EXCEPT ![id] = [@ EXCEPT !.pc = "exited", !.wake = 0]]
       ELSE /\ workers' = [workers EXCEPT ![id] = [@ EXCEPT !.pc = "fetch", !.wake = 0]]
            /\ UNCHANGED done
    /\ returned' = NothingReturned
    /\ UNCHANGED <<now, upstream, events, strategy, verifiers, registry, cleanup, calls, env, probe, client>>

\* a worker that leaves its loop when the upstream call fails
WorkerFetchGivesUp(id) ==
    /\ workers[id].pc = "fetch"
    /\ \/ /\ workers' = [workers EXCEPT ![id] = [pc |-> "exited", wake |-> 0, err |-> "upstream"]]
          /\ UNCHANGED verifiers
       \/ \E responseTime \in ResponseTimes, libraryOk \in BOOLEAN :
            LET fetched == RecordResponseTime(verifiers[id], responseTime)
                updated == Update(fetched, upstream, responseTime, libraryOk)
            IN  IF NothingToLog(fetched)
                THEN /\ verifiers' = [verifiers EXCEPT ![id] = fetched]
                     /\ workers' = [workers EXCEPT ![id] =
                                      [pc |-> "loop", wake |-> 0, err |-> "csv"]]
                ELSE /\ Len(updated.v.verifications) <= MaxObservations
                     /\ verifiers' = [verifiers EXCEPT ![id] = updated.v]
                     /\ workers' = [workers EXCEPT ![id] =
                                      [pc |-> "loop", wake |-> 0, err |-> "nil"]]
    /\ returned' = NothingReturned
    /\ UNCHANGED <<now, upstream, events, strategy, registry, done, cleanup, calls, env, probe, client>>

\* the upstream call of v.fetch() fails (`continue`), or its reply comes
\* back: fetch records the elapsed time and returns the error of
\* logEstimation (`continue` when there is no estimation to log), and run()
\* calls v.update(newReply, responseTime), ignoring its error; err is fetch's
WorkerFetch(id) ==
    /\ workers[id].pc = "fetch"
    /\ \/ /\ workers' = [workers EXCEPT ![id] = [pc |-> "loop", wake |-> 0, err |-> "upstream"]]
          /\ UNCHANGED verifiers
       \/ \E responseTime \in ResponseTimes, libraryOk \in BOOLEAN :
            LET fetched == RecordResponseTime(verifiers[id], responseTime)
                updated == Update(fetched, upstream, responseTime, libraryOk)
            IN  IF NothingToLog(fetched)
                THEN /\ verifiers' = [verifiers EXCEPT ![id] = fetched]
                     /\ workers' = [workers EXCEPT ![id] =
                                      [pc |-> "loop", wake |-> 0, err |-> "csv"]]
                ELSE /\ Len(updated.v.verifications) <= MaxObservations
                     /\ verifiers' = [verifiers EXCEPT ![id] = updated.v]
                     /\ workers' = [workers EXCEPT ![id] =
                                      [pc |-> "loop", wake |-> 0, err |-> "nil"]]
    /\ returned' = NothingReturned
    /\ UNCHANGED <<now, upstream, events, strategy, registry, done, cleanup, calls, env, probe, client>>

----------------------------------------------------------------------------
\* Initialize's goroutine that cleans up finished verifiers

\* `finishedVerifier := <-e.done`
CleanupReceive ==
    /\ cleanup.pc = "receive"
    /\ done # << >>
    /\ cleanup' = [pc |-> "delete", finishedVerifier |-> Head(done)]
    /\ done' = Tail(done)
    /\ returned' = NothingReturned
    /\ UNCHANGED <<now, upstream, events, strategy, verifiers, workers, registry, calls, env, probe, client>>

\* `e.verifiers.Delete(finishedVerifier)`
CleanupDelete ==
    /\ cleanup.pc = "delete"
    /\ registry' = CacheDelete(cleanup.finishedVerifier)
    /\ cleanup' = [pc |-> "receive", finishedVerifier |-> "f1"]
    /\ returned' = NothingReturned
    /\ UNCHANGED <<now, upstream, events, strategy, verifiers, workers, done, calls, env, probe, client>>

----------------------------------------------------------------------------
Next ==
    \/ UpstreamChanges
    \/ Tick
    \/ \E c \in Calls : ClientInvokeFails(c)
    \/ \E c \in Calls : ClientInvoke(c)
    \/ \E c \in Calls : ClientNewVerifier(c)
    \/ \E c \in Calls : ClientAdd(c)
    \/ \E c \in Calls : ServerReturn(c)
    \/ \E id \in VerifierIds : WorkerLoop(id)
    \/ \E id \in VerifierIds : WorkerNapped(id)
    \/ \E id \in VerifierIds : WorkerWoke(id)
    \/ \E id \in VerifierIds : WorkerFetch(id)
    \/ CleanupReceive
    \/ CleanupDelete

Spec == Init /\ [][Next]_vars

SpecBlacklist == BlacklistInit /\ [][Next]_vars

----------------------------------------------------------------------------
\* One verifier and its strategy on their own: the verifier is seeded, then
\* observes replies as the clock advances.  `probe` holds
\*   v          the verifier, whose history the strategy is given
\*   stateful   the strategy object of the revision that is told of every
\*              observation by update(timestamp, reply)
\*   sEstimated, sScheduled   <<d>>: what that object's determineEstimation()
\*              and determineInterval() return after the observation
\*   at         the time of the last observation
\*   estimated, scheduled   <<d>> when the last update(reply, responseTime)
\*              stored an estimation, an interval
\*   mu, sMu    <<m>>: averageUpdateFrequency at the last observation, from
\*              the history and from the strategy object
\*   tbg1       <<[estimation, interval]>>: what the TBG1 object's
\*              determineEstimation and determineInterval returned at the
\*              last observation
\*   distance   <<[K, result]>>: the last backwardsUpdateDistance(history, K)

\* the strategies the functions are applied under
StrategyInputs ==
    { [kind |-> "static", ttl |-> 10],
      [kind |-> "simplistic", ttl |-> 0],
      [kind |-> "nyqvistish", ttl |-> 0],
      [kind |-> "tbg1", ttl |-> 0],
      [kind |-> "adaptive", ttl |-> 0, alpha |-> [num |-> 1, den |-> 2]],
      [kind |-> "updaterisk", ttl |-> 0, rho |-> [num |-> 0, den |-> 1], K |-> 2],
      [kind |-> "updaterisk", ttl |-> 0, rho |-> [num |-> 9, den |-> 10], K |-> 2] }

\* the strategy object after initialize()
InitialStateful(strat) ==
    CASE strat.kind = "updaterisk" -> StatefulInitialize(strat.rho, now)
      [] strat.kind = "tbg1" -> TBG1Initialize
      [] OTHER -> strat

\* strategy.update(timestamp, reply) on the strategy object
UpdateStateful(strat, s, timestamp, reply) ==
    CASE strat.kind = "updaterisk" -> StatefulUpdate(s, timestamp, reply)
      [] strat.kind = "static" -> StatefulStaticUpdate(s, timestamp, reply)
      [] strat.kind = "tbg1" ->
             TBG1Observe(s, [reply |-> reply, timestamp |-> timestamp])
      [] OTHER -> s

\* strategy.determineEstimation() on the strategy object: <<d>>
EstimationStateful(strat, s) ==
    CASE strat.kind = "updaterisk" -> <<StatefulDetermineEstimation(s)>>
      [] strat.kind = "static" -> <<StatefulStaticDetermineEstimation(s)>>
      [] OTHER -> << >>

\* strategy.determineInterval() on the strategy object: <<d>>
IntervalStateful(strat, s) ==
    CASE strat.kind = "updaterisk" -> <<StatefulDetermineInterval(s)>>
      [] strat.kind = "static" -> <<StatefulStaticDetermineInterval(s)>>
      [] OTHER -> << >>

\* what one observation leaves in probe
Observed(v, reply, responseTime, libraryOk, stateful) ==
    LET u == Update(v, reply, responseTime, libraryOk)
        told == IF u.err THEN stateful
                ELSE UpdateStateful(strategy, stateful, now, reply)
    IN  [ pc |-> "strategy",
          v |-> u.v,
          stateful |-> told,
          sEstimated |-> EstimationStateful(strategy, told),
          sScheduled |-> IntervalStateful(strategy, told),
          at |-> now,
          estimated |-> IF Len(u.v.estimations) > Len(v.estimations)
                        THEN <<Last(u.v.estimations)>> ELSE << >>,
          scheduled |-> IF Len(u.v.intervals) > Len(v.intervals)
                        THEN <<Last(u.v.intervals)>> ELSE << >>,
          mu |-> IF strategy.kind = "updaterisk" /\ ~u.err
                 THEN <<AverageUpdateFrequency(strategy, u.v.verifications)>>
                 ELSE << >>,
          sMu |-> IF strategy.kind = "updaterisk"
                  THEN <<StatefulAverageUpdateFrequency(told)>> ELSE << >>,
          tbg1 |-> IF strategy.kind = "tbg1" /\ ~u.err
                   THEN <<[estimation |-> TBG1DetermineEstimation(told),
                           interval |-> TBG1DetermineInterval(told)]>>
                   ELSE << >>,
          distance |-> << >> ]

StrategyInit ==
    /\ now = 0
    /\ events = 0
    /\ upstream = "a"
    /\ strategy \in StrategyInputs
    /\ verifiers = [id \in VerifierIds |-> NoVerifier]
    /\ workers = [id \in VerifierIds |-> NoWorker]
    /\ registry = << >>
    /\ done = << >>
    /\ cleanup = [pc |-> "receive", finishedVerifier |-> "f1"]
    /\ calls = [c \in Calls |-> IdleCall]
    /\ returned = NothingReturned
    /\ env = [blacklist |-> NoBlacklist, methods |-> {PublicRead}]
    /\ client = NoClient
    /\ \E reply \in Replies, libraryOk \in BOOLEAN :
         probe = Observed([NoVerifier EXCEPT !.created = TRUE,
                             !.expiration = now + Seconds(MaximumCacheValidity)],
                          reply, -1, libraryOk, InitialStateful(strategy))

\* the verifier observes a reply: update(reply, responseTime), later than its
\* last observation
ProbeObserve ==
    /\ probe.pc = "strategy"
    /\ now > probe.at
    /\ \E reply \in Replies, rt \in ResponseTimes, libraryOk \in BOOLEAN :
         probe' = Observed(probe.v, reply, rt, libraryOk, probe.stateful)
    /\ UNCHANGED <<now, upstream, events, strategy, verifiers, workers, registry,
                   done, cleanup, calls, returned, env,
                   client>>

\* backwardsUpdateDistance is applied to the verifier's history
ProbeDistance ==
    /\ probe.pc = "strategy"
    /\ \E K \in 1..MaxK :
         probe' = [probe EXCEPT !.distance =
                     <<[K |-> K,
                        result |-> BackwardsUpdateDistance(probe.v.verifications, K)]>>]
    /\ UNCHANGED <<now, upstream, events, strategy, verifiers, workers, registry,
                   done, cleanup, calls, returned, env,
                   client>>

StrategyNext ==
    \/ Tick
    \/ ProbeObserve
    \/ ProbeDistance

SpecStrategy == StrategyInit /\ [][StrategyNext]_vars


----------------------------------------------------------------------------
\* The quality-elastic strategy's update risk, on its own.  Durations are in
\* milliseconds here, floats are fractions num/den.  `probe` holds
\*   seen   the last two calls of calculateUpdateRisk: <<[p95, rho], ...>>

\* the qualityElasticStrategy literals the strategy is built from
QualityInputs ==
    { [kind |-> "qualityelastic", ttl |-> 0, SLO |-> slo, dampening |-> d,
       rho |-> [num |-> 0, den |-> 1]] :
         slo \in {0, 100, 200},
         d \in {[num |-> 0, den |-> 1], [num |-> 1, den |-> 10],
                [num |-> 1, den |-> 2]} }

\* the 95th percentile response times the strategy is given
Percentiles == {0, 50, 100, 199, 900, 1000, 2000}

\* qualityElasticStrategy.initialize()
QualityInitialize(strat) ==
    [strat EXCEPT
       !.dampening = IF @.num * 10000 <= @.den THEN [num |-> 1, den |-> 10]
                     ELSE @,
       !.SLO = IF @ <= 0 THEN 100 ELSE @,
       !.rho = [num |-> 0, den |-> 1]]

\* math.Max of two fractions
MaxFraction(a, b) == IF a.num * b.den >= b.num * a.den THEN a ELSE b

\* qualityElasticStrategy.calculateUpdateRisk: the quotient of the two
\* Nanoseconds() is an integer division
CalculateUpdateRisk(strat, p95) ==
    LET fraction == p95 \div strat.SLO
    IN  MaxFraction([num |-> fraction * strat.dampening.num,
                     den |-> strat.dampening.den],
                    [num |-> 9, den |-> 10])

QualityInit ==
    /\ now = 0
    /\ events = 0
    /\ upstream = "a"
    /\ strategy \in {QualityInitialize(s) : s \in QualityInputs}
    /\ verifiers = [id \in VerifierIds |-> NoVerifier]
    /\ workers = [id \in VerifierIds |-> NoWorker]
    /\ registry = << >>
    /\ done = << >>
    /\ cleanup = [pc |-> "receive", finishedVerifier |-> "f1"]
    /\ calls = [c \in Calls |-> IdleCall]
    /\ returned = NothingReturned
    /\ env = [blacklist |-> NoBlacklist, methods |-> {PublicRead}]
    /\ probe = [pc |-> "risk", seen |-> << >>]
    /\ client = NoClient

\* determineEstimation: strat.inner.rho = strat.calculateUpdateRisk(p95)
ProbeUpdateRisk ==
    /\ probe.pc = "risk"
    /\ \E p95 \in Percentiles :
         LET rho == CalculateUpdateRisk(strategy, p95)
             kept == IF probe.seen = << >> THEN << >> ELSE <<Last(probe.seen)>>
         IN  /\ strategy' = [strategy EXCEPT !.rho = rho]
             /\ probe' = [probe EXCEPT
                            !.seen = Append(kept, [p95 |-> p95, rho |-> rho])]
    /\ UNCHANGED <<now, upstream, events, verifiers, workers, registry, done,
                   cleanup, calls, returned, env,
                   client>>

QualityNext == ProbeUpdateRisk

SpecQuality == QualityInit /\ [][QualityNext]_vars

----------------------------------------------------------------------------
\* Package client: the caching interceptors of a reverse proxy.  An incoming
\* call passes UnaryServerInterceptor; on a miss the proxy's handler makes
\* the same call upstream, which passes UnaryClientInterceptor.

\* request messages: two distinct messages that print the same
Requests == { [addr |-> "1", text |-> "id:1"],
              [addr |-> "2", text |-> "id:1"] }
\* info.FullMethod of the incoming call, method of the outgoing one
FullMethod(m) == "/" \o m.service \o "/" \o m.name
StringWithAddress(req) == req.text \o "@" \o req.addr
\* reqMessage.String()
String(req) == req.text

\* hashcode.Strings: every string followed by "-", then the checksum of all
RECURSIVE JoinStrings(_)
JoinStrings(strings) ==
    IF strings = << >> THEN ""
    ELSE Head(strings) \o "-" \o JoinStrings(Tail(strings))
\* the strings that are hashed here
KeyStrings == {JoinStrings(<<FullMethod(m), String(r)>>) : m \in Methods, r \in Requests}
\* crc32.ChecksumIEEE, free of collisions among the few strings hashed here
Crc32 ==
    CHOOSE f \in [KeyStrings -> 0..(Cardinality(KeyStrings) - 1)] :
        \A s, t \in KeyStrings : s # t => f[s] # f[t]
HashcodeStrings(strings) == Crc32[JoinStrings(strings)]

\* package server, hash(method, req), with the request it is given
RegistryHash(method, req) == HashcodeStrings(<<method, String(req)>>)
\* package client, UnaryServerInterceptor: the key that is looked up
ServerHash(fullMethod, req) == HashcodeStrings(<<fullMethod, String(req)>>)
\* package client, UnaryClientInterceptor: the key that is stored
ClientHash(method, req) == HashcodeStrings(<<method, String(req)>>)

\* one piece of a cache-control header value between commas
Directive(lead, name, sep, arg) == [lead |-> lead, name |-> name, sep |-> sep, arg |-> arg]
\* the max-age values upstream answers with, as printed
MaxAges == {"0", "1", "2"}
\* header.Get("cache-control"): the values of the header, each split at ","
CacheHeaders ==
    {<< >>}
    \cup {<< <<Directive("", "must-revalidate", "", ""), Directive(" ", "max-age", "=", n)>> >> :
             n \in MaxAges}
    \cup { << <<Directive("", "max-age", "=", "soon")>> >>,
           << <<Directive("", "no-store", "", "")>>, <<Directive("", "max-age", "=", "1")>> >> }

\* strconv.Atoi: (n, nil), or (0, err)
Atoi(s) ==
    CASE s = "0" -> [n |-> 0, err |-> FALSE]
      [] s = "1" -> [n |-> 1, err |-> FALSE]
      [] s = "2" -> [n |-> 2, err |-> FALSE]
      [] OTHER -> [n |-> 0, err |-> TRUE]
\* strings.Trim(value, " ")
Trim(value) == [value EXCEPT !.lead = ""]
\* strings.HasPrefix(value, "max-age")
HasPrefixMaxAge(value) == value.lead = "" /\ value.name = "max-age"
\* strings.Split(value, "max-age=")[1]
AfterMaxAge(value) == value.arg

RECURSIVE Concat(_)
Concat(seqs) == IF seqs = << >> THEN << >> ELSE Head(seqs) \o Concat(Tail(seqs))
RECURSIVE FirstMaxAge(_)
FirstMaxAge(values) ==
    IF values = << >> THEN [n |-> -1, err |-> TRUE]
    ELSE IF HasPrefixMaxAge(Trim(Head(values))) THEN Atoi(AfterMaxAge(Trim(Head(values))))
    ELSE FirstMaxAge(Tail(values))
\* cacheExpiration: the first max-age of the headers, or (-1, err)
cacheExpiration(cacheHeaders) == FirstMaxAge(Concat(cacheHeaders))

\* go-cache: Get finds an item until its expiration has passed
CacheGetFoundForever(cache, k) == k \in DOMAIN cache
CacheGetFound(cache, k) ==
    /\ k \in DOMAIN cache
    /\ ~(cache[k].Expiration > 0 /\ now > cache[k].Expiration)
\* go-cache: Set(k, x, d) with d > 0; at and seconds are kept for the record
CacheSet(cache, k, x, seconds) ==
    (k :> [Object |-> x, Expiration |-> now + Seconds(seconds),
           at |-> now, seconds |-> seconds]) @@ cache

IdleHandler == [pc |-> "idle"]
NothingOut == [pc |-> "none"]

CacheInit ==
    /\ now = 0
    /\ events = 0
    /\ upstream = "a"
    /\ strategy = [kind |-> "nil"]
    /\ verifiers = [id \in VerifierIds |-> NoVerifier]
    /\ workers = [id \in VerifierIds |-> NoWorker]
    /\ registry = << >>
    /\ done = << >>
    /\ cleanup = [pc |-> "receive", finishedVerifier |-> "f1"]
    /\ calls = [c \in Calls |-> IdleCall]
    /\ returned = NothingReturned
    /\ env = [blacklist |-> NoBlacklist, methods |-> {PublicRead}]
    /\ probe = NoProbe
    /\ client = [pc |-> "cache", cache |-> << >>,
                 handlers |-> [c \in Calls |-> IdleHandler], out |-> NothingOut]

\* UnaryServerInterceptor up to the call of the handler
CacheUnaryServerInterceptor(c) ==
    /\ client.handlers[c].pc = "idle"
    /\ \E m \in env.methods, req \in Requests :
         LET key == ServerHash(FullMethod(m), req) IN
         IF CacheGetFound(client.cache, key)
         THEN client' = [client EXCEPT !.out =
                           [pc |-> "returned", call |-> c, at |-> now, method |-> m, req |-> req,
                            serverHash |-> key, clientHash |-> key,
                            resp |-> client.cache[key].Object, err |-> FALSE,
                            xcache |-> "hit", invoked |-> FALSE, stored |-> FALSE,
                            header |-> << >>]]
         ELSE client' = [client EXCEPT
                           !.handlers[c] = [pc |-> "handler", method |-> m, req |-> req,
                                            serverHash |-> key],
                           !.out = NothingOut]
    /\ UNCHANGED <<now, upstream, events, strategy, verifiers, workers, registry, done,
                   cleanup, calls, returned, env, probe>>

\* the handler: UnaryClientInterceptor around the upstream call, and the
\* return of UnaryServerInterceptor
CacheUnaryClientInterceptor(c) ==
    /\ client.handlers[c].pc = "handler"
    /\ LET h == client.handlers[c]
           key == ClientHash(FullMethod(h.method), h.req) IN
       \E ok \in BOOLEAN, header \in CacheHeaders :
         /\ ~ok => header = << >>
         /\ LET expiration == cacheExpiration(header).n
                stores == ok /\ expiration > 0 IN
            client' = [client EXCEPT
               !.cache = IF stores THEN CacheSet(@, key, upstream, expiration) ELSE @,
               !.handlers[c] = IdleHandler,
               !.out = [pc |-> "returned", call |-> c, at |-> now, method |-> h.method, req |-> h.req,
                        serverHash |-> h.serverHash, clientHash |-> key,
                        resp |-> IF ok THEN upstream ELSE NoReply, err |-> ~ok,
                        xcache |-> IF ok THEN "miss" ELSE "none", invoked |-> TRUE,
                        stored |-> stores, header |-> header]]
    /\ UNCHANGED <<now, upstream, events, strategy, verifiers, workers, registry, done,
                   cleanup, calls, returned, env, probe>>

CacheNext ==
    \/ UpstreamChanges
    \/ Tick
    \/ \E c \in Calls : CacheUnaryServerInterceptor(c)
    \/ \E c \in Calls : CacheUnaryClientInterceptor(c)

SpecCache == CacheInit /\ [][CacheNext]_vars

----------------------------------------------------------------------------
\* verifier.update run by two goroutines on one verifier: an RPC handler
\* (estimateMaxAge) and the verifier's worker (run).  The verifier has no
\* lock, so the statements of the two calls interleave; an append is a read
\* of the slice and a write of the longer slice.

\* how many updates each goroutine makes after the construction
MaxUpdates == 1
Updaters == {"handler", "worker"}
IdleUpdater == [pc |-> "idle", updates |-> 0, reply |-> NoReply, timestamp |-> 0,
                verifications |-> << >>, basis |-> << >>]

UpdateInit ==
    /\ now = 0
    /\ events = 0
    /\ upstream = "a"
    /\ strategy = [kind |-> "simplistic", ttl |-> 0]
    /\ verifiers = [id \in VerifierIds |->
                      IF id = 1
                      THEN Update([NoVerifier EXCEPT !.created = TRUE,
                                     !.expiration = now + Seconds(MaximumCacheValidity)],
                                  upstream, -1, TRUE).v
                      ELSE NoVerifier]
    /\ workers = [id \in VerifierIds |-> NoWorker]
    /\ registry = << >>
    /\ done = << >>
    /\ cleanup = [pc |-> "receive", finishedVerifier |-> "f1"]
    /\ calls = [c \in Calls |-> IdleCall]
    /\ returned = NothingReturned
    /\ env = [blacklist |-> NoBlacklist, methods |-> {PublicRead}]
    /\ client = NoClient
    /\ probe = [pc |-> "update", updaters |-> [u \in Updaters |-> IdleUpdater],
                received |-> << >>]

\* update up to `now := time.Now()`, with the reply the caller got upstream
UpdateStamp(u) ==
    /\ probe.pc = "update"
    /\ probe.updaters[u].pc = "idle"
    /\ probe.updaters[u].updates < MaxUpdates
    /\ IF Finished(verifiers[1])
       THEN /\ probe' = [probe EXCEPT !.updaters[u].updates = @ + 1]
            /\ UNCHANGED verifiers
       ELSE /\ \E rt \in ResponseTimes :
                 verifiers' = [verifiers EXCEPT ![1] = RecordResponseTime(@, rt)]
            /\ probe' = [probe EXCEPT
                          !.updaters[u] = [@ EXCEPT !.pc = "stamped", !.reply = upstream,
                                                    !.timestamp = now],
                          !.received = Append(@, [by |-> u, reply |-> upstream,
                                                  timestamp |-> now])]
    /\ UNCHANGED <<now, upstream, events, strategy, workers, registry, done, cleanup,
                   calls, returned, env, client>>

\* append(v.verifications, ...): the slice is read
UpdateAppendRead(u) ==
    /\ probe.pc = "update"
    /\ probe.updaters[u].pc = "stamped"
    /\ probe' = [probe EXCEPT !.updaters[u] =
                   [@ EXCEPT !.pc = "read", !.verifications = verifiers[1].verifications]]
    /\ UNCHANGED <<now, upstream, events, strategy, verifiers, workers, registry, done,
                   cleanup, calls, returned, env, client>>

\* v.verifications = ...: the slice that was read, one longer, is written
UpdateAppendWrite(u) ==
    /\ probe.pc = "update"
    /\ probe.updaters[u].pc = "read"
    /\ verifiers' = [verifiers EXCEPT ![1].verifications =
                       Append(probe.updaters[u].verifications,
                              [reply |-> probe.updaters[u].reply,
                               timestamp |-> probe.updaters[u].timestamp])]
    /\ probe' = [probe EXCEPT !.updaters[u].pc = "appended"]
    /\ UNCHANGED <<now, upstream, events, strategy, workers, registry, done, cleanup,
                   calls, returned, env, client>>

\* v.updateEstimations(reply); basis is the history the strategy was given
UpdateEstimationsStep(u) ==
    /\ probe.pc = "update"
    /\ probe.updaters[u].pc = "appended"
    /\ \E libraryOk \in BOOLEAN :
         verifiers' = [verifiers EXCEPT ![1] = UpdateEstimations(@, libraryOk).v]
    /\ probe' = [probe EXCEPT !.updaters[u] =
                   [@ EXCEPT !.pc = "estimated", !.basis = verifiers[1].verifications]]
    /\ UNCHANGED <<now, upstream, events, strategy, workers, registry, done, cleanup,
                   calls, returned, env, client>>

\* v.updateIntervals(reply) and the return of update
UpdateIntervalsStep(u) ==
    /\ probe.pc = "update"
    /\ probe.updaters[u].pc = "estimated"
    /\ verifiers' = [verifiers EXCEPT ![1] = UpdateIntervals(@).v]
    /\ probe' = [probe EXCEPT !.updaters[u] =
                   [@ EXCEPT !.pc = "idle", !.updates = @ + 1, !.verifications = << >>]]
    /\ UNCHANGED <<now, upstream, events, strategy, workers, registry, done, cleanup,
                   calls, returned, env, client>>

UpdateNext ==
    \/ UpstreamChanges
    \/ Tick
    \/ \E u \in Updaters : UpdateStamp(u)
    \/ \E u \in Updaters : UpdateAppendRead(u)
    \/ \E u \in Updaters : UpdateAppendWrite(u)
    \/ \E u \in Updaters : UpdateEstimationsStep(u)
    \/ \E u \in Updaters : UpdateIntervalsStep(u)

SpecUpdate == UpdateInit /\ [][UpdateNext]_vars

----------------------------------------------------------------------------
\* The CSV telemetry: Initialize prints the header, estimateMaxAge and fetch
\* print a row each through logEstimation.  A line is the sequence of its
\* comma-separated fields, with the statement that printed it.

\* how many rows, and how many observations after the first, are followed
MaxRows == 2
\* e.csvLog.Printf("timestamp,source,method,estimate\n")
CsvHeader == <<"timestamp", "source", "method", "estimate">>
\* the clock in units of 10^6 ns, a tick being 500 ms
MillisPerTick == 500
\* time.Now().UnixNano()
UnixNano(t) == t * MillisPerTick
\* verifier.string(): method(req)
VerifierString(m, req) == FullMethod(m) \o "(" \o String(req) \o ")"
\* the request the verifier of the telemetry was made for
CsvRequest == CHOOSE r \in Requests : r.addr = "1"

\* verifier.logEstimation(log, source): [err, lines printed]
LogEstimation(v, source) ==
    IF Len(v.estimations) > 0
    THEN [err |-> FALSE,
          lines |-> <<[by |-> "logEstimation",
                       fields |-> <<UnixNano(now), VerifierString(PublicRead, CsvRequest),
                                    source, WholeSeconds(Last(v.estimations))>>]>>]
    ELSE [err |-> TRUE, lines |-> << >>]

\* Initialize, and a verifier made for a first reply
CsvInit ==
    /\ now = 0
    /\ events = 0
    /\ upstream = "a"
    /\ strategy = [kind |-> "simplistic", ttl |-> 0]
    /\ \E libraryOk \in BOOLEAN :
         verifiers = [id \in VerifierIds |->
                        IF id = 1
                        THEN Update([NoVerifier EXCEPT !.created = TRUE,
                                       !.expiration = now + Seconds(MaximumCacheValidity)],
                                    upstream, -1, libraryOk).v
                        ELSE NoVerifier]
    /\ workers = [id \in VerifierIds |-> NoWorker]
    /\ registry = << >>
    /\ done = << >>
    /\ cleanup = [pc |-> "receive", finishedVerifier |-> "f1"]
    /\ calls = [c \in Calls |-> IdleCall]
    /\ returned = NothingReturned
    /\ env = [blacklist |-> NoBlacklist, methods |-> {PublicRead}]
    /\ client = NoClient
    /\ probe = [pc |-> "csv", lines |-> <<[by |-> "Initialize", fields |-> CsvHeader]>>]

\* estimateMaxAge on the registered verifier: update, estimate, and
\* logEstimation(e.csvLog, "client") unless the update failed
CsvEstimateMaxAge ==
    /\ probe.pc = "csv"
    /\ Len(probe.lines) <= MaxRows
    /\ Len(verifiers[1].verifications) <= MaxRows
    /\ \E responseTime \in ResponseTimes, libraryOk \in BOOLEAN :
         LET updated == Update(verifiers[1], upstream, responseTime, libraryOk) IN
         /\ verifiers' = [verifiers EXCEPT ![1] = updated.v]
         /\ probe' = [probe EXCEPT !.lines =
                        IF updated.err THEN @
                        ELSE @ \o LogEstimation(updated.v, "client").lines]
    /\ UNCHANGED <<now, upstream, events, strategy, workers, registry, done, cleanup,
                   calls, returned, env, client>>

\* the worker's fetch succeeds: recordResponseTime and
\* logEstimation(v.csvLog, "verifier"), then run's update
CsvFetch ==
    /\ probe.pc = "csv"
    /\ Len(probe.lines) <= MaxRows
    /\ Len(verifiers[1].verifications) <= MaxRows
    /\ ~Finished(verifiers[1])
    /\ \E responseTime \in ResponseTimes, libraryOk \in BOOLEAN :
         LET fetched == RecordResponseTime(verifiers[1], responseTime) IN
         /\ verifiers' = [verifiers EXCEPT ![1] =
                            Update(fetched, upstream, responseTime, libraryOk).v]
         /\ probe' = [probe EXCEPT !.lines = @ \o LogEstimation(fetched, "verifier").lines]
    /\ UNCHANGED <<now, upstream, events, strategy, workers, registry, done, cleanup,
                   calls, returned, env, client>>

CsvNext ==
    \/ UpstreamChanges
    \/ Tick
    \/ CsvEstimateMaxAge
    \/ CsvFetch

SpecCsv == CsvInit /\ [][CsvNext]_vars

----------------------------------------------------------------------------
\* The estimator revisions that validate on a schedule: Initialize starts a
\* goroutine that runs verifyEstimations after a delay taken from the channel
\* e.scheduler, and Stop ends it.  `probe` holds
\*   revision   "close": scheduler is make(chan int, 3) and Stop closes it
\*              "select": scheduler is make(chan int) and Stop receives from it
\*   scheduler  the values buffered in the channel
\*   closed     close(e.scheduler) has been executed
\*   loop       where the goroutine is: "receive", "select", "sleep",
\*              "verifyEstimations", "send", "returned" or "panicked"
\*   wake       when its time.Sleep ends
\*   stop       where a caller of Stop is: "idle", "blocked", "panicked"
\*   stops      the calls of Stop so far
\*   rounds     the calls of verifyEstimations so far

\* the calls of Stop that are followed
MaxStops == 2

Revisions == {"close", "select"}

\* make(chan int, 3)
SchedulerCapacity == 3

\* e.scheduler <- 1, in Initialize and in the goroutine's loop
NextDelay == 1

\* delay := 10 in the goroutine of the revision that selects
SelectDelay == 10

\* Initialize: the channel is made and the goroutine started; the revision
\* that closes has sent its first delay
SchedulerInit ==
    /\ now = 0
    /\ events = 0
    /\ upstream = "a"
    /\ strategy = [kind |-> "simplistic", ttl |-> 0]
    /\ verifiers = [id \in VerifierIds |-> NoVerifier]
    /\ workers = [id \in VerifierIds |-> NoWorker]
    /\ registry = << >>
    /\ done = << >>
    /\ cleanup = [pc |-> "receive", finishedVerifier |-> "f1"]
    /\ calls = [c \in Calls |-> IdleCall]
    /\ returned = NothingReturned
    /\ env = [blacklist |-> NoBlacklist, methods |-> {PublicRead}]
    /\ client = NoClient
    /\ \E r \in Revisions :
         probe = [ pc |-> "scheduler", revision |-> r,
                   scheduler |-> IF r = "close" THEN <<NextDelay>> ELSE << >>,
                   closed |-> FALSE,
                   loop |-> IF r = "close" THEN "receive" ELSE "select",
                   wake |-> 0, stop |-> "idle", stops |-> 0, rounds |-> 0 ]

\* delay, more := <-e.scheduler: a buffered value is received, from a closed
\* channel too; more is false once the channel is closed and empty
LoopReceive ==
    /\ probe.pc = "scheduler" /\ probe.revision = "close"
    /\ probe.loop = "receive"
    /\ Len(probe.scheduler) > 0 \/ probe.closed
    /\ probe' = IF Len(probe.scheduler) > 0
                THEN [probe EXCEPT !.scheduler = Tail(@), !.loop = "sleep",
                                   !.wake = now + Seconds(Head(probe.scheduler))]
                ELSE [probe EXCEPT !.loop = "returned"]
    /\ UNCHANGED <<now, upstream, events, strategy, verifiers, workers, registry,
                   done, cleanup, calls, returned, env, client>>

\* select: case e.scheduler <- delay is taken when a caller of Stop
\* receives; nothing but this goroutine sends on the channel, so
\* case <-e.scheduler is never ready
LoopSelect ==
    /\ probe.pc = "scheduler" /\ probe.revision = "select"
    /\ probe.loop = "select"
    /\ probe.stop = "blocked"
    /\ probe' = [probe EXCEPT !.stop = "idle", !.loop = "sleep",
                              !.wake = now + Seconds(SelectDelay)]
    /\ UNCHANGED <<now, upstream, events, strategy, verifiers, workers, registry,
                   done, cleanup, calls, returned, env, client>>

\* time.Sleep(delay) ends and e.verifyEstimations() is called
LoopSlept ==
    /\ probe.pc = "scheduler"
    /\ probe.loop = "sleep"
    /\ now >= probe.wake
    /\ probe' = [probe EXCEPT !.loop = "verifyEstimations", !.rounds = @ + 1]
    /\ UNCHANGED <<now, upstream, events, strategy, verifiers, workers, registry,
                   done, cleanup, calls, returned, env, client>>

\* verifyEstimations up to its last statement.  The revision that closes
\* returns.  The revision that selects ranges over the Items() of a zero
\* cache.Cache and asserts reply.(proto.Message) on a reply that is nil: it
\* panics there, or reaches e.scheduler <- 5.
VerifyEstimations ==
    /\ probe.pc = "scheduler"
    /\ probe.loop = "verifyEstimations"
    /\ \E outcome \in IF probe.revision = "close" THEN {"send"}
                      ELSE {"send", "panicked"} :
         probe' = [probe EXCEPT !.loop = outcome]
    /\ UNCHANGED <<now, upstream, events, strategy, verifiers, workers, registry,
                   done, cleanup, calls, returned, env, client>>

\* e.scheduler <- 1 after the round: a send on a closed channel panics
LoopSend ==
    /\ probe.pc = "scheduler" /\ probe.revision = "close"
    /\ probe.loop = "send"
    /\ probe.closed \/ Len(probe.scheduler) < SchedulerCapacity
    /\ probe' = IF probe.closed
                THEN [probe EXCEPT !.loop = "panicked"]
                ELSE [probe EXCEPT !.scheduler = Append(@, NextDelay),
                                   !.loop = "receive"]
    /\ UNCHANGED <<now, upstream, events, strategy, verifiers, workers, registry,
                   done, cleanup, calls, returned, env, client>>

\* e.scheduler <- 5 at the end of verifyEstimations, on the channel without
\* a buffer: it waits for a caller of Stop to receive; then the loop selects
\* again
VerifySend ==
    /\ probe.pc = "scheduler" /\ probe.revision = "select"
    /\ probe.loop = "send"
    /\ probe.stop = "blocked"
    /\ probe' = [probe EXCEPT !.stop = "idle", !.loop = "select"]
    /\ UNCHANGED <<now, upstream, events, strategy, verifiers, workers, registry,
                   done, cleanup, calls, returned, env, client>>

\* Stop(): close(e.scheduler), which panics in the caller when the channel
\* is closed already; or <-e.scheduler, which waits for the goroutine to send
Stop ==
    /\ probe.pc = "scheduler"
    /\ probe.stop = "idle"
    /\ probe.stops < MaxStops
    /\ probe' = IF probe.revision = "close"
                THEN IF probe.closed
                     THEN [probe EXCEPT !.stops = @ + 1, !.stop = "panicked"]
                     ELSE [probe EXCEPT !.stops = @ + 1, !.closed = TRUE]
                ELSE [probe EXCEPT !.stops = @ + 1, !.stop = "blocked"]
    /\ UNCHANGED <<now, upstream, events, strategy, verifiers, workers, registry,
                   done, cleanup, calls, returned, env, client>>

SchedulerNext ==
    \/ Tick
    \/ LoopReceive
    \/ LoopSelect
    \/ LoopSlept
    \/ VerifyEstimations
    \/ LoopSend
    \/ VerifySend
    \/ Stop

SpecScheduler == SchedulerInit /\ [][SchedulerNext]_vars

----------------------------------------------------------------------------
\* The claims.  Each is stated about `returned`, the return of a server
\* interceptor in the step that led to the state, or about the steps.

\* a server interceptor returned in the last step
SomethingReturned == returned # NothingReturned

\* the facade was asked for a max-age and gave one without an error
Estimated == returned.facade # << >> /\ ~returned.facade[1].err

\* C1: a cache-control header on a successful response carries
\* max-age=N with N the facade's TTL in whole seconds and N > 0; a response
\* whose TTL in whole seconds is 0 or less carries no header; the handler's
\* response is what is returned.
C1_HeaderIsPositiveWholeSeconds ==
    /\ returned.header # << >> =>
          /\ Estimated
          /\ returned.header[1] = WholeSeconds(returned.facade[1].ttl)
          /\ returned.header[1] > 0
    /\ (Estimated /\ WholeSeconds(returned.facade[1].ttl) <= 0) =>
          returned.header = << >>
    /\ returned.ret.resp = returned.call.hresp

\* C2: when the handler returned an error, the interceptor returns the
\* handler's response and error, sets no header and does not ask the
\* facade: the registry and the verifiers are as they were.
C2_HandlerErrorPassesThrough ==
    [][ returned'.call.herr # "nil" =>
          /\ returned'.ret = [resp |-> returned'.call.hresp,
                              err |-> returned'.call.herr]
          /\ returned'.header = << >>
          /\ returned'.facade = << >>
          /\ registry' = registry
          /\ verifiers' = verifiers ]_vars

\* the handler of a call failed upstream while a verifier for the call's
\* fingerprint was registered, and the interceptor returned
C2_Witness ==
    /\ returned.call.herr = "upstream"
    /\ Found(returned.call.fp)
    /\ returned.ret.err = "upstream"

\* C3: update on a verifier whose expiration has passed returns an error
\* and leaves the observations, estimates, intervals and response times
\* as they were, whatever the reply and the response time.
C3_UpdateAfterExpirationRejected ==
    \A id \in VerifierIds :
        (verifiers[id].created /\ now > verifiers[id].expiration) =>
            \A reply \in Replies, responseTime \in ResponseTimes \cup {-1},
               libraryOk \in BOOLEAN :
                Update(verifiers[id], reply, responseTime, libraryOk)
                    = [err |-> TRUE, v |-> verifiers[id]]

\* the facade found a registered verifier that had expired: its update
\* failed, and the interceptor returned without a header
C3_Witness ==
    /\ returned.facade # << >>
    /\ returned.facade[1].err
    /\ \E id \in VerifierIds :
          /\ verifiers[id].created
          /\ now > verifiers[id].expiration
          /\ Found(verifiers[id].fp)

\* C4: the TTL the facade reports, and the max-age advertised, is at least
\* 0 and at most MaximumCacheValidity seconds.
C4_TTLWithinMaximumCacheValidity ==
    /\ Estimated =>
          /\ returned.facade[1].ttl >= 0
          /\ returned.facade[1].ttl <= Seconds(MaximumCacheValidity)
    /\ returned.header # << >> =>
          /\ returned.header[1] >= 0
          /\ returned.header[1] <= MaximumCacheValidity

\* C5: a worker whose sleep returns after the verifier's expiration leaves
\* its loop: it posts the fingerprint to the done channel, once, and exits.
C5_WorkerExitsAtNextWakeup ==
    [][ \A id \in VerifierIds :
          ( /\ workers[id].pc \in {"nap", "sleep"}
            /\ workers'[id] # workers[id]
            /\ now > verifiers[id].expiration ) =>
              /\ workers'[id].pc = "exited"
              /\ done' = Append(done, verifiers[id].fp) ]_vars

\* C6 as claimed: once the cleanup goroutine has received f from the done
\* channel, a lookup of f finds nothing.
C6_NotFoundOnceReceived ==
    [][ (cleanup.pc = "receive" /\ cleanup'.pc = "delete") =>
          ~( /\ cleanup'.finishedVerifier \in DOMAIN registry'
             /\ now' <= registry'[cleanup'.finishedVerifier].expiration ) ]_vars

\* C6: once the cleanup goroutine has run Delete(f) for an f it received,
\* f is not in the registry, and a fingerprint that a lookup does not find
\* stays that way until a client interceptor's Add stores a verifier for it.
C6_NotFoundOnceDeleted ==
    [][ /\ (cleanup.pc = "delete" /\ cleanup'.pc = "receive") =>
              cleanup.finishedVerifier \notin DOMAIN registry'
        /\ \A f \in Fingerprints :
              ( /\ ~Found(f)
                /\ f \in DOMAIN registry'
                /\ now' <= registry'[f].expiration ) =>
                  \E c \in Calls : /\ calls[c].pc = "add"
                                   /\ calls[c].fp = f
                                   /\ calls'[c].pc = "handled"
                                   /\ registry'[f].v = calls[c].v ]_vars

\* a worker has exited, the cleanup goroutine has received its fingerprint
\* and run Delete: the registry, which held the fingerprint, is empty
C6_Witness ==
    /\ \E id \in VerifierIds : /\ workers[id].pc = "exited"
                               /\ verifiers[id].fp \notin DOMAIN registry
    /\ \E c \in Calls : calls[c].pc = "returned"
    /\ done = << >>
    /\ cleanup.pc = "receive"

\* C7: at no time do two verifiers of one fingerprint exist whose
\* expiration has not passed and whose workers run.
C7_OneLiveVerifierPerFingerprint ==
    \A i, j \in VerifierIds :
        ( /\ i # j
          /\ verifiers[i].created /\ verifiers[j].created
          /\ verifiers[i].fp = verifiers[j].fp
          /\ ~Finished(verifiers[i]) /\ ~Finished(verifiers[j]) ) =>
            \/ workers[i].pc \in {"none", "exited"}
            \/ workers[j].pc \in {"none", "exited"}

\* C8: when the Add of a client interceptor finds the fingerprint in the
\* registry, the interceptor returns nil to its handler and the registry
\* keeps the verifier it held.
C8_CollisionIsSuccess ==
    [][ \A c \in Calls :
          ( /\ calls[c].pc = "add"
            /\ calls'[c].pc # "add"
            /\ Found(calls[c].fp) ) =>
              /\ calls'[c].pc = "handled"
              /\ calls'[c].herr = "nil"
              /\ registry' = registry ]_vars

\* C9: when the upstream call succeeded, the interceptors return no error
\* to the RPC caller.
C9_NoEstimatorErrorSurfaced ==
    returned.call.herr # "upstream" => returned.ret.err = "nil"

\* the strategy's determineEstimation returns an error for what update
\* made of verifier v
EstimationFails(v) ==
    DetermineEstimation(strategy, v.intervals, v.verifications,
                        v.estimations).err

----------------------------------------------------------------------------
\* the fingerprints of the methods that ^/Secret/ matches
SecretFingerprints == {hash(m) : m \in {x \in Methods : x.service = "Secret"}}

\* C11: with PROXY_CACHE_BLACKLIST=^/Secret/, no verifier is ever made or
\* registered for a method the expression matches, and no response of such
\* a method carries a cache-control header.
C11_BlacklistedNeverEstimated ==
    env.blacklist = SecretBlacklist =>
      /\ \A id \in VerifierIds :
            verifiers[id].created => verifiers[id].fp \notin SecretFingerprints
      /\ \A c \in Calls : calls[c].v # 0 => calls[c].fp \notin SecretFingerprints
      /\ DOMAIN registry \cap SecretFingerprints = {}
      /\ returned.call.fp \in SecretFingerprints => returned.header = << >>

\* a successful /Secret/Read returned without a header, and did so while a
\* verifier for /Public/Read was registered
C11_Witness ==
    /\ env.blacklist = SecretBlacklist
    /\ returned.call.fp \in SecretFingerprints
    /\ returned.ret = [resp |-> upstream, err |-> "nil"]
    /\ returned.facade = <<[ttl |-> 0, err |-> FALSE]>>
    /\ returned.header = << >>
    /\ Found(hash(PublicRead))

\* C13: when PROXY_CACHE_BLACKLIST is not a valid regular expression, the
\* estimator is in passthrough: no verifier is made or registered and no
\* response carries a cache-control header, whatever the method.
C13_BadBlacklistIsPassthrough ==
    env.blacklist = BadBlacklist =>
      /\ \A id \in VerifierIds : ~verifiers[id].created
      /\ DOMAIN registry = {}
      /\ returned.header = << >>

\* C12: in passthrough (PROXY_MAX_AGE unset or unparseable) no response
\* carries a cache-control header and no verifier is made or registered.
C12_PassthroughMakesNoVerifier ==
    Passthrough(strategy) =>
      /\ returned.header = << >>
      /\ \A id \in VerifierIds : ~verifiers[id].created
      /\ DOMAIN registry = {}

\* C14: under static-10 every successful response carries
\* cache-control: must-revalidate, max-age=10, the first one for a
\* fingerprint included.
C14_StaticTenAlwaysAdvertised ==
    ( /\ strategy = [kind |-> "static", ttl |-> 10]
      /\ SomethingReturned
      /\ returned.ret.err = "nil" ) => returned.header = <<10>>

\* the replies of the probed verifier's history
ProbeReplies ==
    {probe.v.verifications[i].reply : i \in 1..Len(probe.v.verifications)}

\* C15: under the static strategy with TTL N every estimation the verifier
\* stores is exactly N seconds whatever the history, determineInterval gives
\* the negative sentinel so that no interval is stored, and in the revision
\* with update(timestamp, reply) the strategy object is as configured after
\* every update, returns N from determineEstimation() and a negative
\* duration from determineInterval().
C15_StaticIsConstant ==
    (probe.pc = "strategy" /\ strategy.kind = "static") =>
        /\ \A i \in 1..Len(probe.v.estimations) :
               probe.v.estimations[i] = Seconds(strategy.ttl)
        /\ probe.estimated # << >> => probe.estimated[1] = Seconds(strategy.ttl)
        /\ probe.v.intervals = << >>
        /\ probe.scheduled = << >>
        /\ StaticDetermineInterval(strategy).value < 0
        /\ probe.stateful = strategy
        /\ probe.sEstimated = <<Seconds(strategy.ttl)>>
        /\ probe.sScheduled # << >> /\ probe.sScheduled[1] < 0

\* a static strategy has estimated after a history of both replies, some
\* time after the seed
C15_Witness ==
    /\ probe.pc = "strategy" /\ strategy.kind = "static"
    /\ ProbeReplies = Replies
    /\ Len(probe.v.verifications) >= 3
    /\ probe.estimated # << >>
    /\ probe.at > 0

\* the timestamp of the first observation of the newest reply's run: the
\* observation at which the reply was last seen to differ from the one before
LastSeenToChange(verifications) ==
    verifications[OldestUnchanged(verifications)].timestamp

\* C16: under the adaptive strategy the estimation stored by an update is
\* alpha times the time from the observation at which the reply was last
\* seen to differ from the reply before it (the first observation when all
\* replies are equal) to the update.
C16_AdaptiveSinceLastChange ==
    (probe.pc = "strategy" /\ strategy.kind = "adaptive"
       /\ probe.estimated # << >>) =>
        probe.estimated[1] =
            ((probe.at - LastSeenToChange(probe.v.verifications))
                * strategy.alpha.num) \div strategy.alpha.den

\* C16, the half about equal replies: a history of identical replies over a
\* span D gives alpha * D.
C16_EqualRepliesGiveAlphaSpan ==
    (probe.pc = "strategy" /\ strategy.kind = "adaptive"
       /\ probe.estimated # << >> /\ Cardinality(ProbeReplies) = 1) =>
        probe.estimated[1] =
            ((probe.at - probe.v.verifications[1].timestamp)
                * strategy.alpha.num) \div strategy.alpha.den

\* C17: for a history of observations with increasing timestamps and K >= 1,
\* backwardsUpdateDistance returns a count u <= K and u timestamps, none
\* later than the latest observation, strictly decreasing, each the timestamp
\* of an observation whose reply differs from the reply of the next newer
\* observation (the value last seen going from newest to oldest).
C17_DistanceIsOfChanges ==
    (probe.pc = "strategy" /\ probe.distance # << >>) =>
        LET K == probe.distance[1].K
            d == probe.distance[1].result
            h == probe.v.verifications
            n == Len(h)
        IN  /\ d.updates <= K
            /\ \A k \in 1..d.updates : d.timestamps[k] <= h[n].timestamp
            /\ \A k \in 1..(d.updates - 1) :
                   d.timestamps[k] > d.timestamps[k + 1]
            /\ \A k \in 1..d.updates :
                   \E j \in 1..(n - 1) :
                       /\ h[j].timestamp = d.timestamps[k]
                       /\ h[j].reply # h[j + 1].reply

\* the function was asked for two updates of a history with three changes
\* and found two
C17_Witness ==
    /\ probe.pc = "strategy" /\ probe.distance # << >>
    /\ probe.distance[1].K = 2
    /\ probe.distance[1].result.updates = 2
    /\ Len(probe.v.verifications) = 4
    /\ \A j \in 1..3 : probe.v.verifications[j].reply
                           # probe.v.verifications[j + 1].reply

RhoZero == [num |-> 0, den |-> 1]

\* C18: under the update-risk strategy with rho = 0 every estimation is 0,
\* for every history, with and without changes of the reply, and every time
\* of the observation: those the verifier stores from the strategy that is
\* given the history, and the one determineEstimation() of the strategy
\* object returns after every update.
C18_RhoZeroEstimatesZero ==
    (probe.pc = "strategy" /\ strategy.kind = "updaterisk"
       /\ strategy.rho = RhoZero) =>
        /\ \A i \in 1..Len(probe.v.estimations) : probe.v.estimations[i] = 0
        /\ probe.estimated # << >> => probe.estimated[1] = 0
        /\ probe.sEstimated = <<0>>

\* rho = 0 and an estimation made some time after a change of the reply
C18_Witness ==
    /\ probe.pc = "strategy" /\ strategy.kind = "updaterisk"
    /\ strategy.rho = RhoZero
    /\ ProbeReplies = Replies
    /\ probe.estimated # << >>
    /\ probe.mu # << >> /\ probe.mu[1].den > 0
    /\ probe.stateful.observedUpdates = 2

\* the observations followed by a different reply
Changes(h) == {j \in 1..(Len(h) - 1) : h[j].reply # h[j + 1].reply}

\* the K newest of a set of indices
Newest(indices, K) ==
    {j \in indices : Cardinality({i \in indices : i > j}) < K}

\* the oldest of a non-empty set of indices
Oldest(indices) == CHOOSE j \in indices : \A i \in indices : j <= i

\* the observations that brought a reply different from the one before; the
\* seed is one
Arrivals(h) == {1} \cup {j + 1 : j \in Changes(h)}

TwiceBounded(estimate) == Max(estimate, 2 * DefaultInterval)

\* C20: for the update-risk and adaptive strategies the interval stored by
\* an update is max(lastEstimate / 2, defaultInterval), lastEstimate being
\* the verifier's latest estimation; and determineInterval() of the
\* update-risk strategy object is the same of the estimation its
\* determineEstimation() has just returned.
C20_IntervalIsHalfTheEstimate ==
    (probe.pc = "strategy" /\ strategy.kind \in {"adaptive", "updaterisk"}) =>
        /\ (probe.scheduled # << >> /\ probe.v.estimations # << >>) =>
               2 * probe.scheduled[1] = TwiceBounded(Last(probe.v.estimations))
        /\ (probe.sScheduled # << >> /\ probe.sEstimated # << >>) =>
               2 * probe.sScheduled[1] = TwiceBounded(probe.sEstimated[1])

\* C20, the half that holds: no interval is below defaultInterval.
C20_IntervalAtLeastDefault ==
    (probe.pc = "strategy" /\ strategy.kind \in {"adaptive", "updaterisk"}) =>
        /\ probe.scheduled # << >> => probe.scheduled[1] >= DefaultInterval
        /\ probe.sScheduled # << >> => probe.sScheduled[1] >= DefaultInterval

\* C20, the strategy object alone: its interval is max(e / 2,
\* defaultInterval) of its estimation e.
C20_StatefulIntervalFollowsEstimate ==
    (probe.pc = "strategy" /\ strategy.kind = "updaterisk"
       /\ probe.sScheduled # << >> /\ probe.sEstimated # << >>) =>
        2 * probe.sScheduled[1] = TwiceBounded(probe.sEstimated[1])

\* C20, the strategies given the history: the interval is max(e / 2,
\* defaultInterval) cut to whole seconds.
C20_IntervalIsWholeSeconds ==
    (probe.pc = "strategy" /\ strategy.kind \in {"adaptive", "updaterisk"}
       /\ probe.scheduled # << >> /\ probe.v.estimations # << >>) =>
        probe.scheduled[1] =
            Seconds(TwiceBounded(Last(probe.v.estimations))
                        \div (2 * TicksPerSecond))

\* the floor of the update risk
RiskFloor == [num |-> 9, den |-> 10]

\* a <= b for fractions
FractionLeq(a, b) == a.num * b.den <= b.num * a.den

\* C21: the update risk the quality-elastic strategy hands to the inner
\* strategy is at least the floor and at most 1.0 for every 95th percentile
\* response time, and does not decrease when the percentile grows.
C21_RiskWithinFloorAndOne ==
    probe.pc = "risk" =>
        /\ \A i \in 1..Len(probe.seen) :
              /\ FractionLeq(RiskFloor, probe.seen[i].rho)
              /\ FractionLeq(probe.seen[i].rho, [num |-> 1, den |-> 1])
              /\ probe.seen = << >> \/ strategy.rho = Last(probe.seen).rho
        /\ \A i, j \in 1..Len(probe.seen) :
              probe.seen[i].p95 <= probe.seen[j].p95 =>
                  FractionLeq(probe.seen[i].rho, probe.seen[j].rho)

\* C21, the halves that hold: the risk is never below the floor and never
\* decreases when the percentile grows.
C21_RiskAtLeastFloorAndMonotone ==
    probe.pc = "risk" =>
        /\ \A i \in 1..Len(probe.seen) :
              FractionLeq(RiskFloor, probe.seen[i].rho)
        /\ \A i, j \in 1..Len(probe.seen) :
              probe.seen[i].p95 <= probe.seen[j].p95 =>
                  FractionLeq(probe.seen[i].rho, probe.seen[j].rho)

\* the time from the oldest observation of the longest suffix of equal
\* replies to the newest observation
UnchangedSpan(h) ==
    LET first == IF Changes(h) = {} THEN 1
                 ELSE 1 + CHOOSE j \in Changes(h) : \A i \in Changes(h) : i <= j
    IN  h[Len(h)].timestamp - h[first].timestamp

C23_NoIntervalBeforeChange ==
    (probe.pc = "strategy" /\ strategy.kind = "tbg1" /\ probe.tbg1 # << >>
       /\ Changes(probe.v.verifications) = {}) =>
        probe.tbg1[1].interval.err

\* C23, what the strategy does: an interval is produced from the seed
\* observation on.
C23_IntervalFromTheSeed ==
    (probe.pc = "strategy" /\ strategy.kind = "tbg1" /\ probe.tbg1 # << >>) =>
        /\ ~probe.tbg1[1].interval.err
        /\ probe.tbg1[1].interval.value >= 1
        /\ probe.stateful.stage >= 1

\* C24: under TBG1 the estimate is 0 until two changes of the response value
\* have been observed.
C24_EstimateZeroBeforeTwoChanges ==
    (probe.pc = "strategy" /\ strategy.kind = "tbg1" /\ probe.tbg1 # << >>
       /\ Cardinality(Changes(probe.v.verifications)) < 2) =>
        /\ probe.stateful.estimate.num = 0
        /\ probe.tbg1[1].estimation = 0

\* C24, the steps that hold: an observation whose reply is the remembered
\* one leaves the strategy object as it is, the stage never decreases, and a
\* change at stage 2 moves the estimate to 0.9 * estimate + 0.1 * (time since
\* the remembered message).
C24_Steps ==
    [][(probe.pc = "strategy" /\ strategy.kind = "tbg1"
          /\ probe'.pc = "strategy" /\ probe'.tbg1 # << >>
          /\ probe'.v # probe.v) =>
         LET s == probe.stateful
             t == probe'.stateful
             new == Last(probe'.v.verifications)
         IN  /\ t.stage >= s.stage
             /\ new.reply = s.prevMessage.reply => t = s
             /\ (new.reply # s.prevMessage.reply /\ s.stage = 1) =>
                   /\ t.estimate.num = new.timestamp - s.prevMessage.timestamp
                   /\ t.estimate.den = 1
             /\ (new.reply # s.prevMessage.reply /\ s.stage = 2) =>
                   /\ t.stage = 2
                   /\ 10 * t.estimate.num * s.estimate.den =
                        t.estimate.den * (9 * s.estimate.num
                           + (new.timestamp - s.prevMessage.timestamp)
                               * s.estimate.den)]_vars


\* the calls that are between the two interceptors of the proxy
InHandler == {c \in Calls : client.handlers[c].pc = "handler"}
\* two calls are the same call: same method, requests of the same canonical form
SameCall(m1, r1, m2, r2) == m1 = m2 /\ r1.text = r2.text

CarriedMaxAges(header) ==
    {Atoi(d.arg).n : d \in {v \in UNION {{values[i] : i \in DOMAIN values} :
                                            values \in {header[j] : j \in DOMAIN header}} :
                              v.name = "max-age" /\ v.sep = "=" /\ v.arg \in MaxAges}}
\* the cache holds a reply for the key that was stored at most N seconds ago
StoredWithin(k) ==
    /\ k \in DOMAIN client.cache
    /\ now <= client.cache[k].at + Seconds(client.cache[k].seconds)
\* the state after a return of the proxy
C28_Returned ==
    client.out.pc = "returned" =>
      /\ client.out.invoked /\ ~client.out.err =>
           /\ client.out.xcache = "miss"
           /\ client.out.stored <=> \E n \in CarriedMaxAges(client.out.header) : n > 0
           /\ client.out.stored =>
                /\ client.out.clientHash \in DOMAIN client.cache
                /\ client.cache[client.out.clientHash].Object = client.out.resp
                /\ client.cache[client.out.clientHash].at = now
                /\ client.cache[client.out.clientHash].seconds \in
                     CarriedMaxAges(client.out.header)
      /\ client.out.err => ~client.out.stored
      /\ client.out.xcache = "hit" <=> ~client.out.invoked
      /\ client.out.xcache = "hit" =>
           /\ StoredWithin(client.out.serverHash)
           /\ client.out.resp = client.cache[client.out.serverHash].Object
\* a call that arrives
C28_Arrives(c) ==
    /\ client.handlers[c].pc = "idle"
    /\ \/ client'.handlers[c].pc = "handler"
       \/ client'.out # client.out /\ client'.out.pc = "returned" /\ client'.out.call = c

\* C28: the reply of an upstream call is stored under the key of the call
\* exactly when its cache-control header carries max-age=N with N > 0; a
\* call is answered from the cache (x-cache: hit, no upstream call) only
\* while the reply of its key was stored at most N seconds ago, and a call
\* that arrives later than that goes upstream; only a store changes the cache.
C28_StoredAndServedWithinMaxAge ==
    [][ /\ client.pc = "cache" /\ client'.out # client.out => C28_Returned'
        /\ client.pc = "cache" =>
             \A c \in Calls :
                C28_Arrives(c) =>
                  LET k == IF client'.handlers[c].pc = "handler"
                           THEN client'.handlers[c].serverHash
                           ELSE client'.out.serverHash IN
                  /\ client'.handlers[c].pc = "handler" <=> ~StoredWithin(k)
                  /\ client'.cache = client.cache
        /\ client.pc = "cache" /\ client'.cache # client.cache =>
             client'.out.pc = "returned" /\ client'.out.stored ]_vars

\* a call is answered from the cache some time after the reply was stored
C28_Witness ==
    /\ client.pc = "cache"
    /\ client.out.pc = "returned"
    /\ client.out.xcache = "hit"
    /\ client.out.at = now
    /\ now = client.cache[client.out.serverHash].at
               + Seconds(client.cache[client.out.serverHash].seconds)

\* the updates that have appended their observation
Appended == {i \in DOMAIN probe.received :
               LET r == probe.received[i] IN
               ~( /\ probe.updaters[r.by].pc \in {"stamped", "read"}
                  /\ probe.updaters[r.by].timestamp = r.timestamp
                  /\ probe.updaters[r.by].reply = r.reply
                  /\ \A j \in DOMAIN probe.received :
                       j > i => probe.received[j].by # r.by )}
\* the observations of the updates received, in the order of their receipt
Received ==
    [i \in DOMAIN probe.received |->
       [reply |-> probe.received[i].reply, timestamp |-> probe.received[i].timestamp]]
\* whether the elements of a occur in b in the same order
RECURSIVE InOrder(_, _)
InOrder(a, b) ==
    IF a = << >> THEN TRUE
    ELSE IF b = << >> THEN FALSE
    ELSE IF Head(a) = Head(b) THEN InOrder(Tail(a), Tail(b))
    ELSE InOrder(a, Tail(b))

\* C26: in every reachable state of a verifier, also when a handler and the
\* worker run update at the same time, the observation history holds the
\* observations in the order in which the updates were received and its
\* timestamps never decrease.
C26_HistoryInOrderOfReceipt ==
    probe.pc = "update" =>
      LET h == verifiers[1].verifications IN
      /\ \A i \in 1..(Len(h) - 1) : h[i].timestamp <= h[i + 1].timestamp
      /\ Len(h) >= 1 /\ InOrder(Tail(h), Received)

\* C27: update is mutually exclusive on a verifier: when a handler and the
\* worker run update at the same time no observation is lost (the history
\* holds the construction's observation and one for every update that has
\* appended), and the estimate of an update is computed from a history whose
\* last observation is the one of that update.
C27_NoObservationLost ==
    probe.pc = "update" =>
      /\ Len(verifiers[1].verifications) = 1 + Cardinality(Appended)
      /\ \A u \in Updaters :
           probe.updaters[u].pc = "estimated" =>
             Last(probe.updaters[u].basis) =
               [reply |-> probe.updaters[u].reply,
                timestamp |-> probe.updaters[u].timestamp]

\* C29: when the worker's upstream fetch fails, the verifier is not
\* terminated and its histories (and the rest of it) are as before; the
\* worker goes back to the head of its loop, sleeps the latest interval
\* again and, when it wakes, leaves the loop and signals done if the
\* expiration has passed, and fetches again otherwise.
C29_FailedFetchIsRetried ==
    [][ \A id \in VerifierIds :
          /\ ( /\ workers[id].pc = "fetch" /\ workers'[id] # workers[id]
               /\ workers'[id].err = "upstream" ) =>
               /\ verifiers'[id] = verifiers[id]
               /\ workers'[id].pc = "loop"
               /\ done' = done
          /\ ( /\ workers[id].pc = "loop" /\ workers[id].err = "upstream"
               /\ workers'[id] # workers[id] ) =>
               /\ Len(verifiers[id].intervals) > 0
               /\ workers'[id].pc = "sleep"
               /\ workers'[id].wake = now + Last(verifiers[id].intervals)
          /\ ( /\ workers[id].pc = "sleep" /\ workers[id].err = "upstream"
               /\ workers'[id] # workers[id] ) =>
               /\ now >= workers[id].wake
               /\ IF now > verifiers[id].expiration
                  THEN workers'[id].pc = "exited" /\ done' = Append(done, verifiers[id].fp)
                  ELSE workers'[id].pc = "fetch" /\ done' = done ]_vars

\* a worker whose last fetch failed has left its loop after the expiration
C29_Witness ==
    \E id \in VerifierIds :
      /\ workers[id].pc = "exited"
      /\ workers[id].err = "upstream"
      /\ now > verifiers[id].expiration

\* C30: estimateMaxAge for a fingerprint without a registered verifier
\* returns 0 and no error, leaves the registry and every verifier as they
\* were, and the response gets no header; for a fingerprint whose registered
\* verifier has not expired it appends exactly one observation (the reply,
\* at the current time) to that verifier and to no other, leaves the
\* registry as it was, and returns without error the last of that
\* verifier's estimates (0 when it has none).
C30_FacadeFrame ==
    [][ \A c \in Calls :
          ( /\ calls[c].pc = "handled"
            /\ calls'[c].pc = "returned"
            /\ returned'.facade # << >> ) =>
              LET f == calls[c].fp IN
              /\ registry' = registry
              /\ ~Found(f) =>
                   /\ returned'.facade[1] = [ttl |-> 0, err |-> FALSE]
                   /\ returned'.header = << >>
                   /\ verifiers' = verifiers
              /\ (Found(f) /\ now <= verifiers[registry[f].v].expiration) =>
                   LET id == registry[f].v IN
                   /\ verifiers'[id].verifications =
                        Append(verifiers[id].verifications,
                               [reply |-> calls[c].hresp, timestamp |-> now])
                   /\ \A other \in VerifierIds \ {id} : verifiers'[other] = verifiers[other]
                   /\ ~returned'.facade[1].err
                   /\ returned'.facade[1].ttl =
                        IF verifiers'[id].estimations = << >> THEN 0
                        ELSE verifiers'[id].estimations[Len(verifiers'[id].estimations)] ]_vars

\* the facade updated a registered, unexpired verifier and returned its
\* newest estimate, which differs from its first
C30_Witness ==
    /\ returned.facade # << >>
    /\ ~returned.facade[1].err
    /\ Found(returned.call.fp)
    /\ now <= verifiers[registry[returned.call.fp].v].expiration
    /\ Len(verifiers[registry[returned.call.fp].v].estimations) > 1
    /\ returned.facade[1].ttl # Head(verifiers[registry[returned.call.fp].v].estimations)

\* C31: the telemetry starts with the line timestamp,source,method,estimate,
\* which occurs once, and every row has its fields in that order: the time
\* in nanoseconds, the source (client or verifier), the method identity and
\* the TTL in whole seconds.
C31_RowsInHeaderOrder ==
    probe.pc = "csv" =>
      /\ probe.lines[1] = [by |-> "Initialize", fields |-> CsvHeader]
      /\ \A i \in 2..Len(probe.lines) :
           /\ probe.lines[i].by = "logEstimation"
           /\ Len(probe.lines[i].fields) = Len(CsvHeader)
           /\ probe.lines[i].fields[1] = UnixNano(now)
                 \/ probe.lines[i].fields[1] < UnixNano(now)
           /\ probe.lines[i].fields[2] \in {"client", "verifier"}
           /\ probe.lines[i].fields[3] = VerifierString(PublicRead, CsvRequest)
           /\ probe.lines[i].fields[4] >= 0

\* the header is printed once and first, and every row is the time, the
\* method identity, the source and the TTL in whole seconds, in this order
C31_RowsAsPrinted ==
    probe.pc = "csv" =>
      /\ probe.lines[1] = [by |-> "Initialize", fields |-> CsvHeader]
      /\ \A i \in 2..Len(probe.lines) :
           /\ probe.lines[i].by = "logEstimation"
           /\ Len(probe.lines[i].fields) = Len(CsvHeader)
           /\ probe.lines[i].fields[1] <= UnixNano(now)
           /\ probe.lines[i].fields[2] = VerifierString(PublicRead, CsvRequest)
           /\ probe.lines[i].fields[3] \in {"client", "verifier"}
           /\ probe.lines[i].fields[4] >= 0

\* the slots of the buffer that recordResponseTime has written, as indices
\* of responseTimes: before the buffer wraps these are slots 1..counter
WrittenSlots(v) ==
    IF v.responseTimesFilled THEN 1..ResponseTimesLen
    ELSE 2..(v.responseTimeCounter + 1)

\* C32: the response-time buffer holds at most 256 samples and its write
\* index stays inside it; the percentile is computed over exactly the
\* samples recorded so far: over no slot that was never written, and over
\* the newest sample.
C32_PercentileOverRecordedSamples ==
    \A id \in VerifierIds :
      verifiers[id].created =>
        LET v == verifiers[id] IN
        /\ Len(v.responseTimes) <= ResponseTimesLen
        /\ v.responseTimeCounter >= 0 /\ v.responseTimeCounter < ResponseTimesLen
        /\ RecordedResponseTimes(v) = [i \in 1..Cardinality(WrittenSlots(v)) |->
                                         v.responseTimes[i + (IF v.responseTimesFilled
                                                              THEN 0 ELSE 1)]]

\* the buffer stays within 256 slots with its index inside, and before it
\* wraps the percentile is computed over slots 0..counter-1: the slot that
\* was never written and all samples but the newest
C32_PercentileOverShiftedSlots ==
    \A id \in VerifierIds :
      verifiers[id].created =>
        LET v == verifiers[id] IN
        /\ Len(v.responseTimes) <= ResponseTimesLen
        /\ v.responseTimeCounter >= 0 /\ v.responseTimeCounter < ResponseTimesLen
        /\ ~v.responseTimesFilled =>
             /\ Len(RecordedResponseTimes(v)) = v.responseTimeCounter
             /\ v.responseTimeCounter >= 1 => RecordedResponseTimes(v)[1] = 0
             /\ \A i \in 2..v.responseTimeCounter :
                  RecordedResponseTimes(v)[i] = v.responseTimes[i]

\* C33: every response-time sample recorded for a verifier is >= 0: at its
\* construction, in the interceptor's updates and in the worker's fetches.
C33_SamplesNotNegative ==
    \A id \in VerifierIds :
      verifiers[id].created =>
        \A i \in DOMAIN verifiers[id].responseTimes : verifiers[id].responseTimes[i] >= 0

\* C34: every interval in a verifier's interval history, which is every
\* delay its worker sleeps, is > 0 under every strategy.
C34_IntervalsPositive ==
    \A id \in VerifierIds :
      verifiers[id].created =>
        \A i \in DOMAIN verifiers[id].intervals : verifiers[id].intervals[i] > 0

\* under every strategy but nyqvistish the intervals appended are > 0
C34_IntervalsPositiveButNyqvistish ==
    strategy.kind # "nyqvistish" =>
      \A id \in VerifierIds :
        verifiers[id].created =>
          \A i \in DOMAIN verifiers[id].intervals : verifiers[id].intervals[i] > 0

\* C35: a completion signal removes only the verifier that posted it: a
\* registered verifier that has not expired, whose worker has not left its
\* loop, is not removed from the registry by the completion of an earlier
\* verifier of the same fingerprint.
C35_OnlyTheFinishedVerifierIsRemoved ==
    [][ \A f \in DOMAIN registry :
          f \notin DOMAIN registry' =>
            \/ workers[registry[f].v].pc = "exited"
            \/ now > verifiers[registry[f].v].expiration ]_vars

\* sequence a is a prefix of sequence b
IsPrefix(a, b) == Len(a) <= Len(b) /\ SubSeq(b, 1, Len(a)) = a
\* the estimate and interval histories are no longer than the observations
HistoriesWithinObservations(v) ==
    /\ Len(v.estimations) <= Len(v.verifications)
    /\ Len(v.intervals) <= Len(v.verifications)

\* C36: in every reachable state of a verifier the estimate history and the
\* interval history are each no longer than the observation history (so no
\* estimate exists before an observation), and every step leaves each of
\* the three histories as it was or appends to it.
C36_HistoriesOnlyAppended ==
    [][ \A id \in VerifierIds :
          /\ HistoriesWithinObservations(verifiers[id])
          /\ HistoriesWithinObservations(verifiers'[id])
          /\ (verifiers[id].created /\ verifiers'[id].created) =>
               /\ IsPrefix(verifiers[id].verifications, verifiers'[id].verifications)
               /\ IsPrefix(verifiers[id].estimations, verifiers'[id].estimations)
               /\ IsPrefix(verifiers[id].intervals, verifiers'[id].intervals) ]_vars

\* C37: each successful upstream fetch by the worker contributes exactly
\* one sample to the response-time buffer: the write index advances by one.
C37_OneSamplePerFetch ==
    [][ \A id \in VerifierIds :
          ( /\ workers[id].pc = "fetch"
            /\ workers'[id].pc = "loop"
            /\ workers'[id].err # "upstream" ) =>
              verifiers'[id].responseTimeCounter =
                (verifiers[id].responseTimeCounter + 1) % ResponseTimesLen ]_vars

\* a fetch whose reply is passed to update contributes two samples unless
\* the verifier has expired in between, and one when there is no estimate
\* to log
C37_TwoSamplesPerFetch ==
    [][ \A id \in VerifierIds :
          ( /\ workers[id].pc = "fetch"
            /\ workers'[id].pc = "loop"
            /\ workers'[id].err # "upstream" ) =>
              verifiers'[id].responseTimeCounter =
                (verifiers[id].responseTimeCounter
                   + (IF workers'[id].err = "nil" /\ now <= verifiers[id].expiration
                      THEN 2 ELSE 1)) % ResponseTimesLen ]_vars

\* the modification time the strategy object divides by: lastModified in
\* updateRiskBasedStrategy.averageUpdateFrequency()
StatefulLastModified(s) ==
    IF s.observedUpdates = 1 THEN s.newerModification ELSE s.olderModification

\* C38: the update-risk strategy object that is told of every observation by
\* update(timestamp, reply) and the update-risk strategy that recomputes from
\* the observation history with backwardsUpdateDistance, K = 2, agree after
\* every sequence of observations: the same number of counted updates, the
\* same oldest kept modification time, the same mu and the same estimate.
C38_StatefulAgreesWithHistory ==
    (probe.pc = "strategy" /\ strategy.kind = "updaterisk"
       /\ probe.mu # << >>) =>
        LET d == BackwardsUpdateDistance(probe.v.verifications, strategy.K)
            s == probe.stateful
        IN  /\ s.observedUpdates = d.updates
            /\ d.updates > 0 =>
                 StatefulLastModified(s) = d.timestamps[d.updates]
            /\ probe.sMu = probe.mu
            /\ probe.estimated # << >> => probe.sEstimated = probe.estimated

\* C38, the counts alone: the strategy object never counts fewer updates than
\* the history shows, and at most K = 2.
C38_StatefulCountsAtLeastTheHistory ==
    (probe.pc = "strategy" /\ strategy.kind = "updaterisk"
       /\ probe.mu # << >>) =>
        LET d == BackwardsUpdateDistance(probe.v.verifications, strategy.K)
        IN  /\ probe.stateful.observedUpdates >= d.updates
            /\ probe.stateful.observedUpdates <= 2

\* Stop has returned and the goroutine waits on e.scheduler, which only a
\* further call of Stop would serve
WaitsForAnotherStop ==
    /\ probe.stops > 0 /\ probe.stop = "idle"
    /\ probe.revision = "select"
    /\ probe.loop \in {"select", "send"}

\* C39: in the estimator revisions that validate on a schedule, once Stop()
\* has been called the goroutine starts no further verifyEstimations round,
\* does not panic (no send on a closed channel) and is not left waiting on
\* the channel.
C39_StopEndsTheValidation ==
    [][ probe.pc = "scheduler" =>
          /\ probe.stops > 0 => probe'.rounds = probe.rounds
          /\ probe'.loop # "panicked"
          /\ ~WaitsForAnotherStop' ]_vars

\* C39, what the goroutine does instead: it never returns, in either
\* revision
C39_GoroutineNeverReturns ==
    probe.pc = "scheduler" => probe.loop # "returned"

\* C39, the revision that closes: a Stop is followed by at most one more
\* round and the goroutine is never left waiting
C39_CloseNeverWaits ==
    (probe.pc = "scheduler" /\ probe.revision = "close" /\ probe.closed) =>
        probe.loop # "receive" \/ Len(probe.scheduler) > 0

\* C39, the revision that selects: no round is started before Stop is called
C39_SelectRoundsOnlyAfterStop ==
    (probe.pc = "scheduler" /\ probe.revision = "select") =>
        probe.rounds <= probe.stops
====
